---------------------------- MODULE Spec2Model ----------------------------
(***************************************************************************)
(* A model of go-httphandler: the safeResponseWriter (write-once guard),   *)
(* safeHandlerCall (panic containment), Handler.HandleFunc and             *)
(* Handler.sendError (the request lifecycle), getPreferredContentType      *)
(* (content negotiation) and the Options the Handler reads at request      *)
(* time.                                                                   *)
(*                                                                         *)
(* Strings that the code transforms (content types, Accept values) are     *)
(* sequences of one-character strings, so that strings.ToLower and         *)
(* mime.ParseMediaType are computed, not assumed.  Error values are        *)
(* records whose msg is a sequence of text fragments.                      *)
(***************************************************************************)
EXTENDS Integers, Sequences, FiniteSets, TLC

(***************************************************************************)
(* Bounds of the model.                                                    *)
(***************************************************************************)
\* calls the handler makes on the wrapped writer before it returns or panics
MaxHandlerOps == 1
\* calls the spawned task makes on the wrapped writer
MaxTaskOps == 1
\* number of Accept header values of the request
MaxAccept == 1
\* configuration calls made on the Options before the request is served
MaxSetup == 1
\* calls each thread makes on a safeResponseWriter used on its own
MaxCalls == 2
\* number of Accept header values of a request whose negotiation is examined
MaxNegAccept == 2
\* setter calls made on one Options value
MaxOptCalls == 2

\* http.StatusInternalServerError
StatusInternalServerError == 500

Nil == "nil"

(***************************************************************************)
(* Strings.                                                                *)
(***************************************************************************)
Lower(c) ==
    CASE c = "A" -> "a" [] c = "B" -> "b" [] c = "C" -> "c" [] c = "D" -> "d"
      [] c = "E" -> "e" [] c = "F" -> "f" [] c = "G" -> "g" [] c = "H" -> "h"
      [] c = "I" -> "i" [] c = "J" -> "j" [] c = "K" -> "k" [] c = "L" -> "l"
      [] c = "M" -> "m" [] c = "N" -> "n" [] c = "O" -> "o" [] c = "P" -> "p"
      [] c = "Q" -> "q" [] c = "R" -> "r" [] c = "S" -> "s" [] c = "T" -> "t"
      [] c = "U" -> "u" [] c = "V" -> "v" [] c = "W" -> "w" [] c = "X" -> "x"
      [] c = "Y" -> "y" [] c = "Z" -> "z" [] OTHER -> c

\* strings.ToLower
ToLower(s) == [i \in 1..Len(s) |-> Lower(s[i])]

IsSpace(c) == c \in {" ", "\t"}

\* mime.isTokenChar: any character but a separator (tspecials) or a space
IsTokenChar(c) ==
    c \notin {" ", "\t", "(", ")", "<", ">", "@", ",", ";", ":", "\\", "\"",
              "/", "[", "]", "?", "="}

\* the text after the first n characters
Drop(s, n) == SubSeq(s, n + 1, Len(s))

\* length of the longest prefix of s whose characters all satisfy token-ness
TokenLen(s) ==
    LET stops == {i \in 1..Len(s) : ~IsTokenChar(s[i])}
    IN  IF stops = {} THEN Len(s)
        ELSE (CHOOSE i \in stops : \A j \in stops : i <= j) - 1

\* number of leading white-space characters
SpaceLen(s) ==
    LET stops == {i \in 1..Len(s) : ~IsSpace(s[i])}
    IN  IF stops = {} THEN Len(s)
        ELSE (CHOOSE i \in stops : \A j \in stops : i <= j) - 1

TrimLeft(s) == Drop(s, SpaceLen(s))

\* strings.TrimSpace
TrimSpace(s) ==
    LET t == TrimLeft(s)
        keep == {i \in 1..Len(t) : ~IsSpace(t[i])}
    IN  IF keep = {} THEN <<>>
        ELSE SubSeq(t, 1, CHOOSE i \in keep : \A j \in keep : j <= i)

\* strings.Cut(v, ";"): the text before the first ";" (all of v without one)
BeforeSemicolon(v) ==
    LET at == {i \in 1..Len(v) : v[i] = ";"}
    IN  IF at = {} THEN v
        ELSE SubSeq(v, 1, (CHOOSE i \in at : \A j \in at : i <= j) - 1)

\* mime.checkMediaTypeDisposition: token, or token "/" token, and nothing else
CheckMediaTypeDisposition(s) ==
    LET n1 == TokenLen(s)
        rest == Drop(s, n1)
    IN  IF n1 = 0 THEN FALSE
        ELSE IF rest = <<>> THEN TRUE
        ELSE IF rest[1] # "/" THEN FALSE
        ELSE LET sub == Tail(rest)
             IN  TokenLen(sub) > 0 /\ TokenLen(sub) = Len(sub)

\* mime.consumeMediaParam on text v: <<key, rest>>; key <<>> when v does not
\* start with a well-formed ";" attribute "=" token-value
ConsumeMediaParam(v) ==
    LET r0 == TrimLeft(v)
    IN  IF r0 = <<>> \/ r0[1] # ";" THEN <<<<>>, v>>
        ELSE
        LET r1 == TrimLeft(Tail(r0))
            n  == TokenLen(r1)
            key == ToLower(SubSeq(r1, 1, n))
            r2 == TrimLeft(Drop(r1, n))
        IN  IF n = 0 \/ r2 = <<>> \/ r2[1] # "=" THEN <<<<>>, v>>
            ELSE
            LET r3 == TrimLeft(Tail(r2))
                m  == TokenLen(r3)
            IN  IF m = 0 THEN <<<<>>, v>> ELSE <<key, Drop(r3, m)>>

\* the parameter loop of mime.ParseMediaType: TRUE when every parameter of v
\* parses and no parameter name occurs twice (seen: the names met so far)
RECURSIVE ParamsOK(_, _)
ParamsOK(v, seen) ==
    LET w == TrimLeft(v)
    IN  IF w = <<>> THEN TRUE
        ELSE
        LET kr == ConsumeMediaParam(w)
        IN  IF kr[1] = <<>> THEN TrimSpace(kr[2]) = <<";">>
            ELSE IF kr[1] \in seen THEN FALSE
            ELSE ParamsOK(kr[2], seen \cup {kr[1]})

\* mime.ParseMediaType(v): [ok, mediaType]; ok is err == nil
ParseMediaType(v) ==
    LET base == BeforeSemicolon(v)
        mediatype == TrimSpace(ToLower(base))
    IN  IF ~CheckMediaTypeDisposition(mediatype)
        THEN [ok |-> FALSE, mediaType |-> <<>>]
        ELSE [ok |-> ParamsOK(Drop(v, Len(base)), {}), mediaType |-> mediatype]

(***************************************************************************)
(* The content types and Accept values of the model.                       *)
(***************************************************************************)
Application == <<"a", "p", "p", "l", "i", "c", "a", "t", "i", "o", "n", "/">>
Text == <<"t", "e", "x", "t", "/">>
AppJSON == Application \o <<"j", "s", "o", "n">>
AppXML == Application \o <<"x", "m", "l">>
TextXML == Text \o <<"x", "m", "l">>
TextHTML == Text \o <<"h", "t", "m", "l">>
AppOctetStream == Application \o <<"o", "c", "t", "e", "t", "-", "s", "t", "r", "e", "a", "m">>
TextHTMLMixed == <<"T", "e", "x", "t", "/", "H", "T", "M", "L">>
ImagePNG == <<"i", "m", "a", "g", "e", "/", "p", "n", "g">>
Empty == <<>>
TextPlain == Text \o <<"p", "l", "a", "i", "n">>
TextCSVMixed == <<"T", "e", "x", "t", "/", "C", "S", "V">>
TextCSV == Text \o <<"c", "s", "v">>
\* text/html;q=0.1
TextHTMLQ == TextHTML \o <<";", "q", "=", "0", ".", "1">>
\* Application/JSON; Q=0.9
AppJSONMixedQ ==
    <<"A", "p", "p", "l", "i", "c", "a", "t", "i", "o", "n", "/", "J", "S", "O", "N">>
    \o <<";", " ", "Q", "=", "0", ".", "9">>


(***************************************************************************)
(* Error values.  An absent (nil) error is NilError; errors.New(m) has the *)
(* message m; errors.Wrap / Wrapf / Errorf prepend their text.  quoted is  *)
(* the content type that errors.Wrapf formats with %q.                     *)
(***************************************************************************)
NilError == [isNil |-> TRUE, msg |-> <<>>, quoted |-> <<>>]
ErrorsNew(m) == [isNil |-> FALSE, msg |-> <<m>>, quoted |-> <<>>]
ErrorsWrap(e, m) == [isNil |-> FALSE, msg |-> <<m, ": ">> \o e.msg, quoted |-> <<>>]
ErrorsWrapf(e, m, ct) == [isNil |-> FALSE, msg |-> <<m, ": ">> \o e.msg, quoted |-> ct]
ErrorsErrorf(m, text) == [isNil |-> FALSE, msg |-> <<m, ": ", text>>, quoted |-> <<>>]

\* the values a handler may panic with: panic(nil), a string, an error value,
\* another value (an integer)
PanicPayloads ==
    { [kind |-> "nil", text |-> "", err |-> NilError],
      [kind |-> "string", text |-> "oops", err |-> NilError],
      [kind |-> "error", text |-> "", err |-> ErrorsNew("oops")],
      [kind |-> "other", text |-> "42", err |-> NilError] }

(***************************************************************************)
(* HandlerError and WireError.                                             *)
(***************************************************************************)
\* a nil *HandlerError
NoHandlerError ==
    [isNil |-> TRUE, StatusCode |-> 0, PublicError |-> NilError,
     InternalError |-> NilError, ContentType |-> Empty]

HandlerError(status, public, internal, ct) ==
    [isNil |-> FALSE, StatusCode |-> status, PublicError |-> public,
     InternalError |-> internal, ContentType |-> ct]

NoWireError == [isNil |-> TRUE, StatusCode |-> 0, Error |-> <<>>, RequestUUID |-> ""]

\* the HandlerError values the handler of the model returns
HandlerStatusCodes == {0, 400}
HandlerPublicErrors == {NilError, ErrorsNew("bad request")}
HandlerInternalErrors == {NilError, ErrorsNew("secret")}
HandlerContentTypes == {Empty, TextHTMLMixed, ImagePNG}
ReturnedErrors ==
    { HandlerError(s, p, i, c) : s \in HandlerStatusCodes, p \in HandlerPublicErrors,
                                 i \in HandlerInternalErrors, c \in HandlerContentTypes }

\* status codes the handler and the task commit themselves
HandlerCommitCodes == {200, 400}
TaskCommitCodes == {204}

\* what a custom panic hook writes into the HandlerError it is given: a zero
\* StatusCode, a nil PublicError or an empty ContentType leave the field alone
HookMutations ==
    [StatusCode : {0, 418}, PublicError : {NilError, ErrorsNew("hooked")},
     ContentType : {Empty, TextHTMLMixed}]

\* the Accept header values a request carries
AcceptValues == {Empty, TextHTML, ImagePNG}
RECURSIVE SeqsUpTo(_, _)
SeqsUpTo(S, n) ==
    IF n = 0 THEN {<<>>}
    ELSE LET shorter == SeqsUpTo(S, n - 1)
         IN  shorter \cup {Append(q, x) : q \in {r \in shorter : Len(r) = n - 1}, x \in S}

(***************************************************************************)
(* Options.  Functions are named: "nil" is an absent function, "default"   *)
(* the one New installs, "custom" one the caller supplied.  Encoders is a  *)
(* map (isNil: the nil map) from content type to the encoder's name.       *)
(***************************************************************************)
EmptyMap == [k \in {} |-> Nil]
NilEncoders == [isNil |-> TRUE, m |-> EmptyMap]
NilFallback == [isNil |-> TRUE, enc |-> Nil, ct |-> Empty]

\* defaultEncoders
DefaultEncoders ==
    [isNil |-> FALSE,
     m |-> [k \in {AppJSON, AppXML, TextHTML, TextXML} |->
               CASE k = AppJSON -> "DefaultJSONEncoder"
                 [] k = AppXML -> "DefaultXMLEncoder"
                 [] k = TextHTML -> "DefaultHTMLEncoder"
                 [] k = TextXML -> "DefaultXMLEncoder"]]

\* defaultFallbackEncoder
DefaultFallbackEncoder == [isNil |-> FALSE, enc |-> "DefaultJSONEncoder", ct |-> AppJSON]

\* defaultOptions
DefaultOptions ==
    [LogFunc |-> "default", Encoders |-> DefaultEncoders,
     FallbackEncoderFunc |-> DefaultFallbackEncoder,
     RequestUUIDFunc |-> "default", CustomPanicHandler |-> "default"]

\* Options.SetEncoders(encoders) on registry cur: every key of encoders is
\* stored under its lower-case form.  Go ranges over a map in no fixed order, so
\* when two keys have one lower-case form either encoder may remain: the set of
\* the registries the call can leave.
SetEncodersResults(cur, encoders) ==
    LET lows == {ToLower(k) : k \in DOMAIN encoders}
        picks == {f \in [lows -> DOMAIN encoders] : \A l \in lows : ToLower(f[l]) = l}
    IN  { [k \in DOMAIN cur \cup lows |->
              IF k \in lows THEN encoders[f[k]] ELSE cur[k]] : f \in picks }

\* New installing the default fallback whether or not one was supplied
NewResultsDefaultFallback(given) ==
    IF given.isNil THEN {DefaultOptions}
    ELSE
    { [LogFunc |-> IF given.LogFunc = Nil THEN "default" ELSE given.LogFunc,
       Encoders |-> e,
       FallbackEncoderFunc |-> DefaultFallbackEncoder,
       RequestUUIDFunc |->
           IF given.RequestUUIDFunc = Nil THEN "default" ELSE given.RequestUUIDFunc,
       CustomPanicHandler |->
           IF given.CustomPanicHandler = Nil THEN "default" ELSE given.CustomPanicHandler]
      : e \in IF given.Encoders.isNil THEN {DefaultEncoders}
              ELSE { [isNil |-> FALSE, m |-> r]
                     : r \in SetEncodersResults(given.Encoders.m, given.Encoders.m) } }

\* New(options): the Options the Handler holds (given.isNil: New(nil))
NewResults(given) ==
    IF given.isNil THEN {DefaultOptions}
    ELSE
    { [LogFunc |-> IF given.LogFunc = Nil THEN "default" ELSE given.LogFunc,
       Encoders |-> e,
       FallbackEncoderFunc |->
           IF given.FallbackEncoderFunc.isNil THEN DefaultFallbackEncoder
           ELSE given.FallbackEncoderFunc,
       RequestUUIDFunc |->
           IF given.RequestUUIDFunc = Nil THEN "default" ELSE given.RequestUUIDFunc,
       CustomPanicHandler |->
           IF given.CustomPanicHandler = Nil THEN "default" ELSE given.CustomPanicHandler]
      : e \in IF given.Encoders.isNil THEN {DefaultEncoders}
              ELSE { [isNil |-> FALSE, m |-> r]
                     : r \in SetEncodersResults(given.Encoders.m, given.Encoders.m) } }

\* New(nil)
NilOptions ==
    [isNil |-> TRUE, LogFunc |-> Nil, Encoders |-> NilEncoders,
     FallbackEncoderFunc |-> NilFallback, RequestUUIDFunc |-> Nil,
     CustomPanicHandler |-> Nil]

\* the Options value the tests build: custom log and id functions, a registry of
\* two custom encoders and a custom fallback
TestOptions ==
    [isNil |-> FALSE, LogFunc |-> "custom",
     Encoders |-> [isNil |-> FALSE,
                   m |-> [k \in {TextHTML, AppJSON} |->
                             IF k = TextHTML THEN "testHTML" ELSE "testJSON"]],
     FallbackEncoderFunc |-> [isNil |-> FALSE, enc |-> "testFallback", ct |-> AppOctetStream],
     RequestUUIDFunc |-> "custom", CustomPanicHandler |-> Nil]

GivenOptions == {NilOptions, TestOptions}

\* an Options value whose registry holds an entry without an encoder, as New and
\* SetEncoders accept it, and whose fallback content type has upper-case letters
NilEntryOptions ==
    [isNil |-> FALSE, LogFunc |-> Nil,
     Encoders |-> [isNil |-> FALSE,
                   m |-> [k \in {TextPlain, TextHTML} |->
                             IF k = TextPlain THEN Nil ELSE "testHTML"]],
     FallbackEncoderFunc |-> [isNil |-> FALSE, enc |-> "testFallback", ct |-> TextCSVMixed],
     RequestUUIDFunc |-> Nil, CustomPanicHandler |-> Nil]

\* the encoders of the library
DefaultEncoderNames == {"DefaultJSONEncoder", "DefaultXMLEncoder", "DefaultHTMLEncoder"}

\* how a call of encoder enc may end: "ok" (body written, nil returned), "err"
\* (an error returned, nothing written), "partial" (some bytes written, then an
\* error returned), "panic".  The library's encoders fail only when a write fails.
EncoderOutcomes(enc) ==
    IF enc \in DefaultEncoderNames THEN {"ok", "err", "partial"}
    ELSE {"ok", "err", "partial", "panic"}

(***************************************************************************)
(* Content negotiation.                                                    *)
(***************************************************************************)
\* options.Encoders[ct]: the encoder stored under ct, Nil when there is none
Lookup(encoders, ct) == IF ct \in DOMAIN encoders.m THEN encoders.m[ct] ELSE Nil

\* getPreferredContentType keeping the last Accept value that matches
RECURSIVE GetPreferredContentTypeLast(_, _)
GetPreferredContentTypeLast(opts, acc) ==
    IF acc = <<>> THEN [enc |-> Nil, ct |-> Empty]
    ELSE LET parsed == ParseMediaType(acc[Len(acc)])
             ct == ToLower(parsed.mediaType)
         IN  IF parsed.ok /\ ct \in DOMAIN opts.Encoders.m
             THEN [enc |-> opts.Encoders.m[ct], ct |-> ct]
             ELSE GetPreferredContentTypeLast(opts, SubSeq(acc, 1, Len(acc) - 1))

\* getPreferredContentType looking the Accept value up as it was sent
RECURSIVE GetPreferredContentTypeExact(_, _)
GetPreferredContentTypeExact(opts, acc) ==
    IF acc = <<>> THEN [enc |-> Nil, ct |-> Empty]
    ELSE IF Head(acc) \in DOMAIN opts.Encoders.m
         THEN [enc |-> opts.Encoders.m[Head(acc)], ct |-> Head(acc)]
         ELSE GetPreferredContentTypeExact(opts, Tail(acc))

\* getPreferredContentType giving up at the first Accept value that does not parse
RECURSIVE GetPreferredContentTypeStops(_, _)
GetPreferredContentTypeStops(opts, acc) ==
    IF acc = <<>> THEN [enc |-> Nil, ct |-> Empty]
    ELSE LET parsed == ParseMediaType(Head(acc))
             ct == ToLower(parsed.mediaType)
         IN  IF ~parsed.ok THEN [enc |-> Nil, ct |-> Empty]
             ELSE IF ct \in DOMAIN opts.Encoders.m
             THEN [enc |-> opts.Encoders.m[ct], ct |-> ct]
             ELSE GetPreferredContentTypeStops(opts, Tail(acc))

\* getPreferredContentType: the first Accept value, in header order, that
\* parses and whose lower-case media type is a key of the registry
RECURSIVE GetPreferredContentType(_, _)
GetPreferredContentType(opts, acc) ==
    IF acc = <<>> THEN [enc |-> Nil, ct |-> Empty]
    ELSE LET parsed == ParseMediaType(Head(acc))
             ct == ToLower(parsed.mediaType)
         IN  IF parsed.ok /\ ct \in DOMAIN opts.Encoders.m
             THEN [enc |-> opts.Encoders.m[ct], ct |-> ct]
             ELSE GetPreferredContentType(opts, Tail(acc))

\* sendError asking the Accept header first and the override after it
PreferredAcceptFirst(opts, e, acc) ==
    IF e.ContentType = Empty \/ GetPreferredContentType(opts, acc).enc # Nil
    THEN GetPreferredContentType(opts, acc)
    ELSE [enc |-> Lookup(opts.Encoders, ToLower(e.ContentType)),
          ct |-> ToLower(e.ContentType)]

\* sendError asking the Accept header when the override names no encoder
PreferredAcceptSecond(opts, e, acc) ==
    IF e.ContentType = Empty \/ Lookup(opts.Encoders, ToLower(e.ContentType)) = Nil
    THEN GetPreferredContentType(opts, acc)
    ELSE [enc |-> Lookup(opts.Encoders, ToLower(e.ContentType)),
          ct |-> ToLower(e.ContentType)]

\* sendError, the choice of f and err.ContentType before the fallback
Preferred(opts, e, acc) ==
    IF e.ContentType = Empty THEN GetPreferredContentType(opts, acc)
    ELSE [enc |-> Lookup(opts.Encoders, ToLower(e.ContentType)),
          ct |-> ToLower(e.ContentType)]

\* sendError testing the content type alone
UsesFallbackEmptyOnly(first) == first.ct = Empty

\* sendError using the fallback content type as FallbackEncoderFunc returned it
NegotiateFallbackAsGiven(opts, e, acc) ==
    LET first == Preferred(opts, e, acc)
    IN  IF first.enc = Nil \/ first.ct = Empty
        THEN [enc |-> opts.FallbackEncoderFunc.enc,
              ct |-> opts.FallbackEncoderFunc.ct, fallback |-> TRUE]
        ELSE [enc |-> first.enc, ct |-> first.ct, fallback |-> FALSE]

\* sendError: if f == nil || err.ContentType == ""
UsesFallback(first) == first.enc = Nil \/ first.ct = Empty

\* sendError, the encoder and content type it resolves; fallback tells whether
\* they come from FallbackEncoderFunc
Negotiate(opts, e, acc) ==
    LET first == Preferred(opts, e, acc)
    IN  IF UsesFallback(first)
        THEN [enc |-> opts.FallbackEncoderFunc.enc,
              ct |-> ToLower(opts.FallbackEncoderFunc.ct), fallback |-> TRUE]
        ELSE [enc |-> first.enc, ct |-> first.ct, fallback |-> FALSE]

(***************************************************************************)
(* The state.                                                              *)
(***************************************************************************)
VARIABLES
    options,      \* the Options the Handler holds (Handler.options)
    nsetup,       \* configuration calls made so far
    accept,       \* the request's Accept header values, in header order
    pc,           \* where HandleFunc stands
    call,         \* per thread, the call on the safeResponseWriter in progress
    written,      \* safeResponseWriter.written
    underlying,   \* what the underlying http.ResponseWriter received, in order
    wcalls,       \* the calls made on the safeResponseWriter, in order
    logs,         \* the calls of LogFunc, in order
    err,          \* HandleFunc's err
    returned,     \* err as safeHandlerCall returned it
    result,       \* how the handler ended: "none", "nil", "error", "panic"
    requestUUID,  \* HandleFunc's requestUUID
    ctxUUID,      \* the value stored under uuidKey in the request's context
    uuidCalls,    \* number of RequestUUIDFunc calls
    wire,         \* sendError's errorToSend
    chosen,       \* sendError's f and err.ContentType after negotiation
    encoded,      \* the encoder calls: the encoder, what it was given, how it ended
    hookCalls,    \* the calls of the panic hook: context id, HandlerError given,
                  \* the fields the hook set
    hops,         \* calls the handler made on the writer
    task,         \* the task the handler spawned: "none", "running"
    tops,         \* calls the task made on the writer
    outcome,      \* the terminal state of the request
    crash,        \* the component whose panic left HandleFunc, "" if none
    prev,         \* the request served before this one, <<>> if this is the first
    setup,        \* the last call of a setter of the Options: <<>> or <<the call>>
    other         \* the request this Handler serves at the same time, as far as it
                  \* has got: <<>> if there is none, else <<its variables>>

vars == <<options, nsetup, accept, pc, call, written, underlying, wcalls, logs, err,
          returned, result, requestUUID, ctxUUID, uuidCalls, wire, chosen, encoded,
          hookCalls, hops, task, tops, outcome, crash, prev, setup, other>>

Threads == {"main", "task"}

IdleCall == [op |-> "none", step |-> "", code |-> 0, by |-> ""]
WriteHeaderCall(code, by) == [op |-> "WriteHeader", step |-> "load", code |-> code, by |-> by]
WriteCall(by) == [op |-> "Write", step |-> "store", code |-> 0, by |-> by]

Event(op, code, by, value) == [op |-> op, code |-> code, by |-> by, value |-> value]

NoChoice == [enc |-> Nil, ct |-> Empty, fallback |-> FALSE]

\* a Handler that New built from one of `given`, before a request with one of the
\* Accept headers `accepts` is served
InitOf(given, accepts) ==
    /\ options \in UNION {NewResults(g) : g \in given}
    /\ nsetup = 0
    /\ accept \in accepts
    /\ pc = "config"
    /\ call = [t \in Threads |-> IdleCall]
    /\ written = FALSE
    /\ underlying = <<>>
    /\ wcalls = <<>>
    /\ logs = <<>>
    /\ err = NoHandlerError
    /\ returned = NoHandlerError
    /\ result = "none"
    /\ requestUUID = ""
    /\ ctxUUID = ""
    /\ uuidCalls = 0
    /\ wire = NoWireError
    /\ chosen = NoChoice
    /\ encoded = <<>>
    /\ hookCalls = <<>>
    /\ hops = 0
    /\ task = "none"
    /\ tops = 0
    /\ outcome = "none"
    /\ crash = ""
    /\ prev = <<>>
    /\ setup = <<>>
    /\ other = <<>>

Init == InitOf(GivenOptions, SeqsUpTo(AcceptValues, MaxAccept))

(***************************************************************************)
(* safeResponseWriter.  WriteHeader is Load, Store, forward; Write is      *)
(* Store, forward; each step is atomic and the steps of two threads        *)
(* interleave.                                                             *)
(***************************************************************************)
\* WriteHeader without its check of the flag
WriteHeaderLoadUnchecked(t) ==
    /\ call[t].op = "WriteHeader" /\ call[t].step = "load"
    /\ call' = [call EXCEPT ![t].step = "store"]
    /\ UNCHANGED <<options, prev, setup, other, nsetup, accept, pc, written, underlying, wcalls, logs, err,
                   returned, result, requestUUID, ctxUUID, uuidCalls, wire, chosen,
                   encoded, hookCalls, hops, task, tops, outcome, crash>>

\* WriteHeader: if w.written.Load() { return }
WriteHeaderLoad(t) ==
    /\ call[t].op = "WriteHeader" /\ call[t].step = "load"
    /\ call' = [call EXCEPT ![t] = IF written THEN IdleCall
                                   ELSE [call[t] EXCEPT !.step = "store"]]
    /\ UNCHANGED <<options, prev, setup, other, nsetup, accept, pc, written, underlying, wcalls, logs, err,
                   returned, result, requestUUID, ctxUUID, uuidCalls, wire, chosen,
                   encoded, hookCalls, hops, task, tops, outcome, crash>>

\* WriteHeader forwarding without setting the flag
WriteHeaderStoreNoFlag(t) ==
    /\ call[t].op = "WriteHeader" /\ call[t].step = "store"
    /\ call' = [call EXCEPT ![t].step = "forward"]
    /\ UNCHANGED <<options, prev, setup, other, nsetup, accept, pc, written, underlying, wcalls, logs, err,
                   returned, result, requestUUID, ctxUUID, uuidCalls, wire, chosen,
                   encoded, hookCalls, hops, task, tops, outcome, crash>>

\* WriteHeader: w.written.Store(true)
WriteHeaderStore(t) ==
    /\ call[t].op = "WriteHeader" /\ call[t].step = "store"
    /\ written' = TRUE
    /\ call' = [call EXCEPT ![t].step = "forward"]
    /\ UNCHANGED <<options, prev, setup, other, nsetup, accept, pc, underlying, wcalls, logs, err,
                   returned, result, requestUUID, ctxUUID, uuidCalls, wire, chosen,
                   encoded, hookCalls, hops, task, tops, outcome, crash>>

\* WriteHeader: w.writer.WriteHeader(statusCode)
WriteHeaderForward(t) ==
    /\ call[t].op = "WriteHeader" /\ call[t].step = "forward"
    /\ underlying' = Append(underlying, Event("WriteHeader", call[t].code, call[t].by, <<>>))
    /\ call' = [call EXCEPT ![t] = IdleCall]
    /\ UNCHANGED <<options, prev, setup, other, nsetup, accept, pc, written, wcalls, logs, err,
                   returned, result, requestUUID, ctxUUID, uuidCalls, wire, chosen,
                   encoded, hookCalls, hops, task, tops, outcome, crash>>

\* Write returning without forwarding when the flag is already set
WriteStoreChecked(t) ==
    /\ call[t].op = "Write" /\ call[t].step = "store"
    /\ written' = TRUE
    /\ call' = [call EXCEPT ![t] = IF written THEN IdleCall
                                   ELSE [call[t] EXCEPT !.step = "forward"]]
    /\ UNCHANGED <<options, prev, setup, other, nsetup, accept, pc, underlying, wcalls, logs, err,
                   returned, result, requestUUID, ctxUUID, uuidCalls, wire, chosen,
                   encoded, hookCalls, hops, task, tops, outcome, crash>>

\* Write forwarding without setting the flag
WriteStoreNoFlag(t) ==
    /\ call[t].op = "Write" /\ call[t].step = "store"
    /\ call' = [call EXCEPT ![t].step = "forward"]
    /\ UNCHANGED <<options, prev, setup, other, nsetup, accept, pc, written, underlying, wcalls, logs, err,
                   returned, result, requestUUID, ctxUUID, uuidCalls, wire, chosen,
                   encoded, hookCalls, hops, task, tops, outcome, crash>>

\* Write: w.written.Store(true)
WriteStore(t) ==
    /\ call[t].op = "Write" /\ call[t].step = "store"
    /\ written' = TRUE
    /\ call' = [call EXCEPT ![t].step = "forward"]
    /\ UNCHANGED <<options, prev, setup, other, nsetup, accept, pc, underlying, wcalls, logs, err,
                   returned, result, requestUUID, ctxUUID, uuidCalls, wire, chosen,
                   encoded, hookCalls, hops, task, tops, outcome, crash>>

\* Write: return w.writer.Write(bytes)
WriteForward(t) ==
    /\ call[t].op = "Write" /\ call[t].step = "forward"
    /\ underlying' = Append(underlying, Event("Write", 0, call[t].by, <<>>))
    /\ call' = [call EXCEPT ![t] = IdleCall]
    /\ UNCHANGED <<options, prev, setup, other, nsetup, accept, pc, written, wcalls, logs, err,
                   returned, result, requestUUID, ctxUUID, uuidCalls, wire, chosen,
                   encoded, hookCalls, hops, task, tops, outcome, crash>>

\* Written: return w.written.Load()
Written == written

(***************************************************************************)
(* Options: configuration before the request is served.                    *)
(***************************************************************************)
\* Options.SetCustomPanicHandler(f): stores f, also an absent one
SetCustomPanicHandlerResult(opts, f) == [opts EXCEPT !.CustomPanicHandler = f]

SetCustomPanicHandler(f) ==
    /\ pc = "config" /\ nsetup < MaxSetup
    /\ options' = SetCustomPanicHandlerResult(options, f)
    /\ nsetup' = nsetup + 1
    /\ UNCHANGED <<prev, setup, other, accept, pc, call, written, underlying, wcalls, logs, err,
                   returned, result, requestUUID, ctxUUID, uuidCalls, wire, chosen,
                   encoded, hookCalls, hops, task, tops, outcome, crash>>

\* what a setter call leaves: what it returned ("nil", "error") or "panic", and
\* the Options after it
SetterOutcome(res, opts) == [res |-> res, opts |-> opts]

\* SetLogFunc storing the function it is given, absent or not
SetLogFuncOutcomesUnchecked(opts, logFunc) ==
    {SetterOutcome(IF logFunc = Nil THEN "error" ELSE "nil", [opts EXCEPT !.LogFunc = logFunc])}

\* Options.SetLogFunc(logFunc)
SetLogFuncOutcomes(opts, logFunc) ==
    IF logFunc = Nil THEN {SetterOutcome("error", opts)}
    ELSE {SetterOutcome("nil", [opts EXCEPT !.LogFunc = logFunc])}

\* Options.SetEncoders(encoders): the nil map is refused; each entry is assigned
\* to o.Encoders, and the first assignment to a nil o.Encoders panics
SetEncodersOutcomes(opts, encoders) ==
    IF encoders.isNil THEN {SetterOutcome("error", opts)}
    ELSE IF opts.Encoders.isNil /\ DOMAIN encoders.m # {}
    THEN {SetterOutcome("panic", opts)}
    ELSE {SetterOutcome("nil", [opts EXCEPT !.Encoders.m = r])
          : r \in SetEncodersResults(opts.Encoders.m, encoders.m)}

\* SetEncoder storing the encoder before it validates it
SetEncoderOutcomesStoresFirst(opts, contentType, encoder) ==
    LET key == ToLower(contentType)
        cur == opts.Encoders.m
        stored == [opts EXCEPT !.Encoders =
                      [isNil |-> FALSE,
                       m |-> [k \in DOMAIN cur \cup {key} |->
                                 IF k = key THEN encoder ELSE cur[k]]]]
    IN  IF contentType = Empty \/ encoder = Nil THEN {SetterOutcome("error", stored)}
        ELSE {SetterOutcome("nil", stored)}

\* Options.SetEncoder(contentType, encoder)
SetEncoderOutcomes(opts, contentType, encoder) ==
    LET key == ToLower(contentType)
        cur == opts.Encoders.m
    IN  IF contentType = Empty \/ encoder = Nil THEN {SetterOutcome("error", opts)}
        ELSE {SetterOutcome("nil",
                  [opts EXCEPT !.Encoders =
                      [isNil |-> FALSE,
                       m |-> [k \in DOMAIN cur \cup {key} |->
                                 IF k = key THEN encoder ELSE cur[k]]]])}

\* Options.SetFallbackEncoder(contentType, encoder): the pair is kept as given
SetFallbackEncoderOutcomes(opts, contentType, encoder) ==
    IF contentType = Empty \/ encoder = Nil THEN {SetterOutcome("error", opts)}
    ELSE {SetterOutcome("nil",
              [opts EXCEPT !.FallbackEncoderFunc =
                  [isNil |-> FALSE, enc |-> encoder, ct |-> contentType]])}

\* Options.SetRequestUUIDFunc(requestUUIDFunc)
SetRequestUUIDFuncOutcomes(opts, requestUUIDFunc) ==
    IF requestUUIDFunc = Nil THEN {SetterOutcome("error", opts)}
    ELSE {SetterOutcome("nil", [opts EXCEPT !.RequestUUIDFunc = requestUUIDFunc])}

\* a call of a setter, or of New, as `setup` keeps it: the function, its
\* arguments, how it ended and the Options it was called on
SetterCall(op, contentType, f, encoders, res, before) ==
    [op |-> op, ct |-> contentType, f |-> f, m |-> encoders, res |-> res, before |-> before]

\* one setter call on the Options value, before New (pc = "raw") or through the
\* Handler that holds it (pc = "config")
SetterStep(op, contentType, f, encoders, outcomes) ==
    /\ pc \in {"raw", "config"} /\ nsetup < MaxOptCalls
    /\ pc = "raw" => ~options.isNil
    /\ \E o \in outcomes :
          /\ options' = o.opts
          /\ setup' = <<SetterCall(op, contentType, f, encoders, o.res, options)>>
    /\ nsetup' = nsetup + 1
    /\ UNCHANGED <<prev, other, accept, pc, call, written, underlying, wcalls, logs, err,
                   returned, result, requestUUID, ctxUUID, uuidCalls, wire, chosen,
                   encoded, hookCalls, hops, task, tops, outcome, crash>>

SetLogFunc(logFunc) ==
    SetterStep("SetLogFunc", Empty, logFunc, NilEncoders, SetLogFuncOutcomes(options, logFunc))

SetEncoders(encoders) ==
    SetterStep("SetEncoders", Empty, Nil, encoders, SetEncodersOutcomes(options, encoders))

SetEncoder(contentType, encoder) ==
    SetterStep("SetEncoder", contentType, encoder, NilEncoders,
               SetEncoderOutcomes(options, contentType, encoder))

SetFallbackEncoder(contentType, encoder) ==
    SetterStep("SetFallbackEncoder", contentType, encoder, NilEncoders,
               SetFallbackEncoderOutcomes(options, contentType, encoder))

SetRequestUUIDFunc(requestUUIDFunc) ==
    SetterStep("SetRequestUUIDFunc", Empty, requestUUIDFunc, NilEncoders,
               SetRequestUUIDFuncOutcomes(options, requestUUIDFunc))

\* a deletion that reaches a copy of the registry, not the map the Handler reads
RemoveEncoderFromCopy(contentType) ==
    /\ pc = "config" /\ nsetup < MaxSetup
    /\ contentType \in DOMAIN options.Encoders.m
    /\ setup' = <<SetterCall("delete", contentType, Nil, NilEncoders, "nil", options)>>
    /\ nsetup' = nsetup + 1
    /\ UNCHANGED <<options, prev, other, accept, pc, call, written, underlying, wcalls, logs, err,
                   returned, result, requestUUID, ctxUUID, uuidCalls, wire, chosen,
                   encoded, hookCalls, hops, task, tops, outcome, crash>>

\* delete(opts.Encoders, contentType) by the caller that keeps the Options the
\* Handler was built from: Handler.options is the same *Options
RemoveEncoder(contentType) ==
    /\ pc = "config" /\ nsetup < MaxSetup
    /\ contentType \in DOMAIN options.Encoders.m
    /\ options' = [options EXCEPT !.Encoders.m =
                      [k \in DOMAIN options.Encoders.m \ {contentType} |->
                          options.Encoders.m[k]]]
    /\ setup' = <<SetterCall("delete", contentType, Nil, NilEncoders, "nil", options)>>
    /\ nsetup' = nsetup + 1
    /\ UNCHANGED <<prev, other, accept, pc, call, written, underlying, wcalls, logs, err,
                   returned, result, requestUUID, ctxUUID, uuidCalls, wire, chosen,
                   encoded, hookCalls, hops, task, tops, outcome, crash>>

\* New(options) on the Options value the caller built
NewHandler ==
    /\ pc = "raw"
    /\ options' \in NewResults(options)
    /\ pc' = "config"
    /\ setup' = <<SetterCall("New", Empty, Nil, NilEncoders, "nil", options)>>
    /\ UNCHANGED <<prev, other, nsetup, accept, call, written, underlying, wcalls, logs, err,
                   returned, result, requestUUID, ctxUUID, uuidCalls, wire, chosen,
                   encoded, hookCalls, hops, task, tops, outcome, crash>>

(***************************************************************************)
(* What the caller's functions may do when they are called.                *)
(***************************************************************************)
\* RequestUUIDFunc: the default returns a UUID; a custom one returns any string,
\* the empty one included, or panics
UUIDOutcomes(f) ==
    IF f = "default" THEN {[panics |-> FALSE, id |-> "6ba7b810-9dad"]}
    ELSE {[panics |-> FALSE, id |-> "0123456789"], [panics |-> FALSE, id |-> ""],
          [panics |-> TRUE, id |-> ""]}

\* LogFunc: the default (log.Printf) returns; a custom one returns or panics
LogOutcomes(f) == IF f = "default" THEN {"return"} ELSE {"return", "panic"}

\* the panic hook: the default does nothing; a custom one writes fields of the
\* HandlerError or panics
NoMutation == [StatusCode |-> 0, PublicError |-> NilError, ContentType |-> Empty]
HookOutcomes(f) ==
    IF f = "default" THEN {[panics |-> FALSE, set |-> NoMutation]}
    ELSE {[panics |-> FALSE, set |-> m] : m \in HookMutations}
         \cup {[panics |-> TRUE, set |-> NoMutation]}

\* a hook that is handed a copy of the HandlerError
ApplyHookToCopy(e, set) == e

\* the HandlerError after a hook wrote `set` into it
ApplyHook(e, set) ==
    [e EXCEPT !.StatusCode = IF set.StatusCode # 0 THEN set.StatusCode ELSE @,
              !.PublicError = IF ~set.PublicError.isNil THEN set.PublicError ELSE @,
              !.ContentType = IF set.ContentType # Empty THEN set.ContentType ELSE @]

(***************************************************************************)
(* HandleFunc and safeHandlerCall.                                         *)
(***************************************************************************)
\* GetRequestUUID(r): the string stored under uuidKey in r's context
GetRequestUUID(ctx) == ctx

\* HandleFunc calling RequestUUIDFunc once for requestUUID and once more for the
\* value it stores in the context
BeginTwoIds ==
    /\ pc = "config"
    /\ \E o, c \in UUIDOutcomes(options.RequestUUIDFunc) :
          /\ uuidCalls' = uuidCalls + 2
          /\ IF o.panics \/ c.panics
             THEN /\ pc' = "panicked" /\ crash' = "RequestUUIDFunc"
                  /\ UNCHANGED <<requestUUID, ctxUUID>>
             ELSE /\ pc' = "handler" /\ crash' = crash
                  /\ requestUUID' = o.id /\ ctxUUID' = c.id
    /\ written' = FALSE
    /\ UNCHANGED <<options, prev, setup, other, nsetup, accept, call, underlying, wcalls, logs, err,
                   returned, result, wire, chosen, encoded, hookCalls, hops, task, tops,
                   outcome>>

\* HandleFunc: newSafeResponseWriter, RequestUUIDFunc, context.WithValue
Begin ==
    /\ pc = "config"
    /\ \E o \in UUIDOutcomes(options.RequestUUIDFunc) :
          /\ uuidCalls' = uuidCalls + 1
          /\ IF o.panics
             THEN /\ pc' = "panicked" /\ crash' = "RequestUUIDFunc"
                  /\ UNCHANGED <<requestUUID, ctxUUID>>
             ELSE /\ pc' = "handler" /\ crash' = crash
                  /\ requestUUID' = o.id /\ ctxUUID' = o.id
    /\ written' = FALSE
    /\ UNCHANGED <<options, prev, setup, other, nsetup, accept, call, underlying, wcalls, logs, err, returned,
                   result, wire, chosen, encoded, hookCalls, hops, task, tops, outcome>>

\* the handler calls w.WriteHeader(code)
HandlerWriteHeader(code) ==
    /\ pc = "handler" /\ call["main"] = IdleCall /\ hops < MaxHandlerOps
    /\ call' = [call EXCEPT !["main"] = WriteHeaderCall(code, "handler")]
    /\ wcalls' = Append(wcalls, Event("WriteHeader", code, "handler", <<>>))
    /\ hops' = hops + 1
    /\ UNCHANGED <<options, prev, setup, other, nsetup, accept, pc, written, underlying, logs, err, returned,
                   result, requestUUID, ctxUUID, uuidCalls, wire, chosen, encoded,
                   hookCalls, task, tops, outcome, crash>>

\* the handler calls w.Write(bytes)
HandlerWrite ==
    /\ pc = "handler" /\ call["main"] = IdleCall /\ hops < MaxHandlerOps
    /\ call' = [call EXCEPT !["main"] = WriteCall("handler")]
    /\ wcalls' = Append(wcalls, Event("Write", 0, "handler", <<>>))
    /\ hops' = hops + 1
    /\ UNCHANGED <<options, prev, setup, other, nsetup, accept, pc, written, underlying, logs, err, returned,
                   result, requestUUID, ctxUUID, uuidCalls, wire, chosen, encoded,
                   hookCalls, task, tops, outcome, crash>>

\* the handler starts a task (a goroutine) that keeps the wrapped writer
HandlerSpawn ==
    /\ pc = "handler" /\ call["main"] = IdleCall /\ task = "none"
    /\ task' = "running"
    /\ UNCHANGED <<options, prev, setup, other, nsetup, accept, pc, call, written, underlying, wcalls, logs,
                   err, returned, result, requestUUID, ctxUUID, uuidCalls, wire, chosen,
                   encoded, hookCalls, hops, tops, outcome, crash>>

\* the task calls w.WriteHeader(code)
TaskWriteHeader(code) ==
    /\ task = "running" /\ call["task"] = IdleCall /\ tops < MaxTaskOps
    /\ call' = [call EXCEPT !["task"] = WriteHeaderCall(code, "task")]
    /\ wcalls' = Append(wcalls, Event("WriteHeader", code, "task", <<>>))
    /\ tops' = tops + 1
    /\ UNCHANGED <<options, prev, setup, other, nsetup, accept, pc, written, underlying, logs, err, returned,
                   result, requestUUID, ctxUUID, uuidCalls, wire, chosen, encoded,
                   hookCalls, hops, task, outcome, crash>>

\* the task calls w.Write(bytes)
TaskWrite ==
    /\ task = "running" /\ call["task"] = IdleCall /\ tops < MaxTaskOps
    /\ call' = [call EXCEPT !["task"] = WriteCall("task")]
    /\ wcalls' = Append(wcalls, Event("Write", 0, "task", <<>>))
    /\ tops' = tops + 1
    /\ UNCHANGED <<options, prev, setup, other, nsetup, accept, pc, written, underlying, logs, err, returned,
                   result, requestUUID, ctxUUID, uuidCalls, wire, chosen, encoded,
                   hookCalls, hops, task, outcome, crash>>

\* HandleFunc committing status 200 itself after the handler returned nil
HandlerReturnNilCommits ==
    /\ pc = "handler" /\ call["main"] = IdleCall
    /\ result' = "nil"
    /\ pc' = "returned" /\ outcome' = "Success"
    /\ call' = [call EXCEPT !["main"] = WriteHeaderCall(200, "orchestrator")]
    /\ wcalls' = Append(wcalls, Event("WriteHeader", 200, "orchestrator", <<>>))
    /\ UNCHANGED <<options, prev, setup, other, nsetup, accept, written, underlying, logs, err,
                   returned, requestUUID, ctxUUID, uuidCalls, wire, chosen, encoded,
                   hookCalls, hops, task, tops, crash>>

\* safeHandlerCall: err = h(w, r) returns nil; HandleFunc: if err == nil { return }
HandlerReturnNil ==
    /\ pc = "handler" /\ call["main"] = IdleCall
    /\ result' = "nil"
    /\ pc' = "returned" /\ outcome' = "Success"
    /\ UNCHANGED <<options, prev, setup, other, nsetup, accept, call, written, underlying, wcalls, logs, err,
                   returned, requestUUID, ctxUUID, uuidCalls, wire, chosen, encoded,
                   hookCalls, hops, task, tops, crash>>

\* safeHandlerCall: err = h(w, r) returns a HandlerError
HandlerReturnError(e) ==
    /\ pc = "handler" /\ call["main"] = IdleCall
    /\ result' = "error"
    /\ err' = e /\ returned' = e
    /\ pc' = "normalize"
    /\ UNCHANGED <<options, prev, setup, other, nsetup, accept, call, written, underlying, wcalls, logs,
                   requestUUID, ctxUUID, uuidCalls, wire, chosen, encoded, hookCalls,
                   hops, task, tops, outcome, crash>>

\* safeHandlerCall's deferred function, the HandlerError it builds from recover()
PanicError(p) ==
    HandlerError(0, NilError,
                 IF p.kind = "error" THEN ErrorsWrap(p.err, "panic")
                 ELSE ErrorsErrorf("panic", p.text),
                 Empty)

\* safeHandlerCall's deferred function, e := recover(): the value recovered from
\* a panic with p.  For panic(nil) it depends on the build: nil when the main
\* module's go version is below 1.21 (this module's go.mod says 1.15), a
\* *runtime.PanicNilError, which is an error, otherwise.
RecoverValues(p) ==
    IF p.kind = "nil"
    THEN {p, [kind |-> "error", text |-> "",
              err |-> ErrorsNew("panic called with nil argument")]}
    ELSE {p}

\* safeHandlerCall's deferred function: if e == nil { return }
Recovered(e) == e.kind # "nil"

\* safeHandlerCall: h(w, r) panics with p and the deferred function runs
HandlerPanic(p) ==
    /\ pc = "handler" /\ call["main"] = IdleCall
    /\ result' = "panic"
    /\ \E e \in RecoverValues(p) :
          IF ~Recovered(e)
          THEN /\ pc' = "returned" /\ outcome' = "Success"
               /\ UNCHANGED <<err, returned, hookCalls, crash>>
          ELSE IF options.CustomPanicHandler = Nil
          THEN /\ pc' = "panicked" /\ crash' = "CustomPanicHandler"
               /\ UNCHANGED <<err, returned, hookCalls, outcome>>
          ELSE \E h \in HookOutcomes(options.CustomPanicHandler) :
                  /\ hookCalls' = Append(hookCalls, [ctxUUID |-> ctxUUID,
                                                     err |-> PanicError(e), set |-> h.set])
                  /\ IF h.panics
                     THEN /\ pc' = "panicked" /\ crash' = "CustomPanicHandler"
                          /\ UNCHANGED <<err, returned, outcome>>
                     ELSE /\ err' = ApplyHook(PanicError(e), h.set)
                          /\ returned' = ApplyHook(PanicError(e), h.set)
                          /\ pc' = "normalize"
                          /\ UNCHANGED <<outcome, crash>>
    /\ UNCHANGED <<options, prev, setup, other, nsetup, accept, call, written, underlying, wcalls, logs,
                   requestUUID, ctxUUID, uuidCalls, wire, chosen, encoded, hops, task, tops>>

\* HandleFunc without its defaults
NormalizedNotDefaulted(e) == e

\* HandleFunc: the defaults of StatusCode and PublicError
Normalized(e) ==
    [e EXCEPT !.StatusCode = IF @ = 0 THEN StatusInternalServerError ELSE @,
              !.PublicError = IF @.isNil THEN ErrorsNew("unknown error") ELSE @]

\* HandleFunc applying its defaults only to a HandlerError the handler returned
NormalizeReturnedOnly ==
    /\ pc = "normalize"
    /\ err' = IF result = "panic" THEN err ELSE Normalized(err)
    /\ pc' = "log"
    /\ UNCHANGED <<options, prev, setup, other, nsetup, accept, call, written, underlying, wcalls, logs,
                   returned, result, requestUUID, ctxUUID, uuidCalls, wire, chosen,
                   encoded, hookCalls, hops, task, tops, outcome, crash>>

\* HandleFunc: the defaults are written into err
Normalize ==
    /\ pc = "normalize"
    /\ err' = Normalized(err)
    /\ pc' = "log"
    /\ UNCHANGED <<options, prev, setup, other, nsetup, accept, call, written, underlying, wcalls, logs,
                   returned, result, requestUUID, ctxUUID, uuidCalls, wire, chosen,
                   encoded, hookCalls, hops, task, tops, outcome, crash>>

\* HandleFunc going to its check of the flag without the LogFunc call
LogSkipped ==
    /\ pc = "log"
    /\ pc' = "written"
    /\ UNCHANGED <<options, prev, setup, other, nsetup, accept, call, written, underlying, wcalls, logs,
                   err, returned, result, requestUUID, ctxUUID, uuidCalls, wire, chosen,
                   encoded, hookCalls, hops, task, tops, outcome, crash>>

\* the arguments of one LogFunc call
LogCall(handlerError, e, uuid) ==
    [handlerError |-> handlerError, internalError |-> e.InternalError,
     publicError |-> e.PublicError, statusCode |-> e.StatusCode, requestUUID |-> uuid]

\* HandleFunc: h.options.LogFunc(errors.New("handler error"), ...)
Log ==
    /\ pc = "log"
    /\ logs' = Append(logs, LogCall(ErrorsNew("handler error"), err, requestUUID))
    /\ \E o \in LogOutcomes(options.LogFunc) :
          IF o = "panic" THEN pc' = "panicked" /\ crash' = "LogFunc"
          ELSE pc' = "written" /\ crash' = crash
    /\ UNCHANGED <<options, prev, setup, other, nsetup, accept, call, written, underlying, wcalls, err,
                   returned, result, requestUUID, ctxUUID, uuidCalls, wire, chosen,
                   encoded, hookCalls, hops, task, tops, outcome>>

\* HandleFunc: if safeWriter.Written() { return }
CheckWritten ==
    /\ pc = "written"
    /\ IF Written THEN pc' = "returned" /\ outcome' = "AlreadyCommitted"
       ELSE pc' = "negotiate" /\ outcome' = outcome
    /\ UNCHANGED <<options, prev, setup, other, nsetup, accept, call, written, underlying, wcalls, logs, err,
                   returned, result, requestUUID, ctxUUID, uuidCalls, wire, chosen,
                   encoded, hookCalls, hops, task, tops, crash>>

(***************************************************************************)
(* sendError.                                                              *)
(***************************************************************************)
\* err.PublicError.Error(): the text of the message
ErrorText(e) == e.msg

\* sendError putting the internal error's text into errorToSend
WireErrorWithInternal(e, uuid) ==
    [isNil |-> FALSE, StatusCode |-> e.StatusCode,
     Error |-> ErrorText(e.PublicError) \o ErrorText(e.InternalError),
     RequestUUID |-> uuid]

\* sendError: errorToSend
WireError(e, uuid) ==
    [isNil |-> FALSE, StatusCode |-> e.StatusCode, Error |-> ErrorText(e.PublicError),
     RequestUUID |-> uuid]

\* sendError: errorToSend is built, then f and err.ContentType are resolved
BuildAndNegotiate ==
    /\ pc = "negotiate"
    /\ wire' = WireError(err, requestUUID)
    /\ chosen' = Negotiate(options, err, accept)
    /\ err' = [err EXCEPT !.ContentType = Negotiate(options, err, accept).ct]
    /\ pc' = "header"
    /\ UNCHANGED <<options, prev, setup, other, nsetup, accept, call, written, underlying, wcalls, logs,
                   returned, result, requestUUID, ctxUUID, uuidCalls, encoded, hookCalls,
                   hops, task, tops, outcome, crash>>

\* sendError: w.Header().Set("Content-Type", err.ContentType)
SetContentType ==
    /\ pc = "header"
    /\ underlying' = Append(underlying, Event("SetHeader", 0, "orchestrator", err.ContentType))
    /\ pc' = "commit"
    /\ UNCHANGED <<options, prev, setup, other, nsetup, accept, call, written, wcalls, logs, err, returned,
                   result, requestUUID, ctxUUID, uuidCalls, wire, chosen, encoded,
                   hookCalls, hops, task, tops, outcome, crash>>

\* sendError going to the encoder without committing the status
CommitStatusSkipped ==
    /\ pc = "commit" /\ call["main"] = IdleCall
    /\ pc' = "encode"
    /\ UNCHANGED <<options, prev, setup, other, nsetup, accept, call, written, underlying, wcalls, logs,
                   err, returned, result, requestUUID, ctxUUID, uuidCalls, wire, chosen,
                   encoded, hookCalls, hops, task, tops, outcome, crash>>

\* sendError committing http.StatusInternalServerError whatever err.StatusCode is
CommitStatusDefault ==
    /\ pc = "commit" /\ call["main"] = IdleCall
    /\ call' = [call EXCEPT !["main"] =
                   WriteHeaderCall(StatusInternalServerError, "orchestrator")]
    /\ wcalls' = Append(wcalls, Event("WriteHeader", StatusInternalServerError,
                                      "orchestrator", <<>>))
    /\ pc' = "encode"
    /\ UNCHANGED <<options, prev, setup, other, nsetup, accept, written, underlying, logs, err, returned,
                   result, requestUUID, ctxUUID, uuidCalls, wire, chosen, encoded,
                   hookCalls, hops, task, tops, outcome, crash>>

\* sendError: w.WriteHeader(err.StatusCode)
CommitStatus ==
    /\ pc = "commit" /\ call["main"] = IdleCall
    /\ call' = [call EXCEPT !["main"] = WriteHeaderCall(err.StatusCode, "orchestrator")]
    /\ wcalls' = Append(wcalls, Event("WriteHeader", err.StatusCode, "orchestrator", <<>>))
    /\ pc' = "encode"
    /\ UNCHANGED <<options, prev, setup, other, nsetup, accept, written, underlying, logs, err, returned,
                   result, requestUUID, ctxUUID, uuidCalls, wire, chosen, encoded,
                   hookCalls, hops, task, tops, outcome, crash>>

\* one encoder call: the encoder, the WireError and request id it is given, how it ends
EncoderCall(enc, w, uuid, how) == [enc |-> enc, wire |-> w, ctxUUID |-> uuid, how |-> how]

\* sendError: f(w, r, errorToSend) is called; calling an absent f panics
Encode ==
    /\ pc = "encode" /\ call["main"] = IdleCall
    /\ IF chosen.enc = Nil
       THEN /\ pc' = "panicked" /\ crash' = "nil encoder"
            /\ UNCHANGED <<encoded, call, wcalls>>
       ELSE \E how \in EncoderOutcomes(chosen.enc) :
               /\ encoded' = Append(encoded, EncoderCall(chosen.enc, wire,
                                                         GetRequestUUID(ctxUUID), how))
               /\ IF how = "panic"
                  THEN /\ pc' = "panicked" /\ crash' = "encoder"
                       /\ UNCHANGED <<call, wcalls>>
                  ELSE /\ pc' = "encoded" /\ crash' = crash
                       /\ IF how = "err" THEN UNCHANGED <<call, wcalls>>
                          ELSE /\ call' = [call EXCEPT !["main"] = WriteCall("encoder")]
                               /\ wcalls' = Append(wcalls, Event("Write", 0, "encoder", <<>>))
    /\ UNCHANGED <<options, prev, setup, other, nsetup, accept, written, underlying, logs, err, returned,
                   result, requestUUID, ctxUUID, uuidCalls, wire, chosen, hookCalls,
                   hops, task, tops, outcome>>

\* sendError going back to the negotiation after the encoder returned nil
EncodeOKRetry ==
    /\ pc = "encoded" /\ call["main"] = IdleCall
    /\ encoded[Len(encoded)].how = "ok"
    /\ pc' = "negotiate" /\ outcome' = outcome
    /\ UNCHANGED <<options, prev, setup, other, nsetup, accept, call, written, underlying, wcalls, logs, err,
                   returned, result, requestUUID, ctxUUID, uuidCalls, wire, chosen,
                   encoded, hookCalls, hops, task, tops, crash>>

\* sendError: the encoder returned nil
EncodeOK ==
    /\ pc = "encoded" /\ call["main"] = IdleCall
    /\ encoded[Len(encoded)].how = "ok"
    /\ pc' = "returned" /\ outcome' = "EncodingOK"
    /\ UNCHANGED <<options, prev, setup, other, nsetup, accept, call, written, underlying, wcalls, logs, err,
                   returned, result, requestUUID, ctxUUID, uuidCalls, wire, chosen,
                   encoded, hookCalls, hops, task, tops, crash>>

\* sendError dropping the encoder's error without a log call
LogEncodeErrorSilent ==
    /\ pc = "encoded" /\ call["main"] = IdleCall
    /\ encoded[Len(encoded)].how \in {"err", "partial"}
    /\ pc' = "returned" /\ outcome' = "EncodingFailed"
    /\ UNCHANGED <<options, prev, setup, other, nsetup, accept, call, written, underlying, wcalls, logs, err,
                   returned, result, requestUUID, ctxUUID, uuidCalls, wire, chosen,
                   encoded, hookCalls, hops, task, tops, crash>>

\* sendError logging the encoder's error and then trying the fallback encoder
LogEncodeErrorThenFallback ==
    /\ pc = "encoded" /\ call["main"] = IdleCall
    /\ encoded[Len(encoded)].how \in {"err", "partial"}
    /\ logs' = Append(logs, LogCall(ErrorsWrapf(ErrorsNew("encoder error"),
                                                "unable to encode", err.ContentType),
                                    err, requestUUID))
    /\ encoded' = Append(encoded, EncoderCall(options.FallbackEncoderFunc.enc, wire,
                                              GetRequestUUID(ctxUUID), "err"))
    /\ pc' = "returned" /\ outcome' = "EncodingFailed"
    /\ UNCHANGED <<options, prev, setup, other, nsetup, accept, call, written, underlying, wcalls, err,
                   returned, result, requestUUID, ctxUUID, uuidCalls, wire, chosen,
                   hookCalls, hops, task, tops, crash>>

\* sendError: the encoder returned encodeErr; LogFunc(errors.Wrapf(encodeErr, ...), ...)
LogEncodeError ==
    /\ pc = "encoded" /\ call["main"] = IdleCall
    /\ encoded[Len(encoded)].how \in {"err", "partial"}
    /\ logs' = Append(logs, LogCall(ErrorsWrapf(ErrorsNew("encoder error"),
                                                "unable to encode", err.ContentType),
                                    err, requestUUID))
    /\ \E o \in LogOutcomes(options.LogFunc) :
          IF o = "panic" THEN pc' = "panicked" /\ crash' = "LogFunc" /\ outcome' = outcome
          ELSE pc' = "returned" /\ crash' = crash /\ outcome' = "EncodingFailed"
    /\ UNCHANGED <<options, prev, setup, other, nsetup, accept, call, written, underlying, wcalls, err,
                   returned, result, requestUUID, ctxUUID, uuidCalls, wire, chosen,
                   encoded, hookCalls, hops, task, tops>>


(***************************************************************************)
(* Spec: configuration, then one request served by HandleFunc, the handler *)
(* and the orchestrator running in the request's own thread.               *)
(***************************************************************************)
Next ==
    \/ \E f \in {Nil, "custom"} : SetCustomPanicHandler(f)
    \/ Begin
    \/ \E code \in HandlerCommitCodes : HandlerWriteHeader(code)
    \/ HandlerWrite
    \/ WriteHeaderLoad("main")
    \/ WriteHeaderStore("main")
    \/ WriteHeaderForward("main")
    \/ WriteStore("main")
    \/ WriteForward("main")
    \/ HandlerReturnNil
    \/ \E e \in ReturnedErrors : HandlerReturnError(e)
    \/ \E p \in PanicPayloads : HandlerPanic(p)
    \/ Normalize
    \/ Log
    \/ CheckWritten
    \/ BuildAndNegotiate
    \/ SetContentType
    \/ CommitStatus
    \/ Encode
    \/ EncodeOK
    \/ LogEncodeError

Spec == Init /\ [][Next]_vars

(***************************************************************************)
(* SpecWriter: one safeResponseWriter, as newSafeResponseWriter returns    *)
(* it, called by two threads whose Load / Store / forward steps            *)
(* interleave.                                                             *)
(***************************************************************************)
\* the status codes the callers pass
CallCodes == {200, 400, 500}

CallsBy(t) == Cardinality({i \in DOMAIN wcalls : wcalls[i].by = t})

\* thread t calls w.WriteHeader(code)
CallWriteHeader(t, code) ==
    /\ pc = "direct" /\ call[t] = IdleCall /\ CallsBy(t) < MaxCalls
    /\ call' = [call EXCEPT ![t] = WriteHeaderCall(code, t)]
    /\ wcalls' = Append(wcalls, Event("WriteHeader", code, t, <<>>))
    /\ UNCHANGED <<options, prev, setup, other, nsetup, accept, pc, written, underlying, logs, err, returned,
                   result, requestUUID, ctxUUID, uuidCalls, wire, chosen, encoded,
                   hookCalls, hops, task, tops, outcome, crash>>

\* thread t calls w.Write(bytes)
CallWrite(t) ==
    /\ pc = "direct" /\ call[t] = IdleCall /\ CallsBy(t) < MaxCalls
    /\ call' = [call EXCEPT ![t] = WriteCall(t)]
    /\ wcalls' = Append(wcalls, Event("Write", 0, t, <<>>))
    /\ UNCHANGED <<options, prev, setup, other, nsetup, accept, pc, written, underlying, logs, err, returned,
                   result, requestUUID, ctxUUID, uuidCalls, wire, chosen, encoded,
                   hookCalls, hops, task, tops, outcome, crash>>

\* newSafeResponseWriter(writer)
InitWriter ==
    /\ options = DefaultOptions
    /\ nsetup = 0
    /\ accept = <<>>
    /\ pc = "direct"
    /\ call = [t \in Threads |-> IdleCall]
    /\ written = FALSE
    /\ underlying = <<>>
    /\ wcalls = <<>>
    /\ logs = <<>>
    /\ err = NoHandlerError
    /\ returned = NoHandlerError
    /\ result = "none"
    /\ requestUUID = ""
    /\ ctxUUID = ""
    /\ uuidCalls = 0
    /\ wire = NoWireError
    /\ chosen = NoChoice
    /\ encoded = <<>>
    /\ hookCalls = <<>>
    /\ hops = 0
    /\ task = "none"
    /\ tops = 0
    /\ outcome = "none"
    /\ crash = ""
    /\ prev = <<>>
    /\ setup = <<>>
    /\ other = <<>>

NextWriter ==
    \/ \E t \in Threads, code \in CallCodes : CallWriteHeader(t, code)
    \/ \E t \in Threads : CallWrite(t)
    \/ \E t \in Threads : WriteHeaderLoad(t)
    \/ \E t \in Threads : WriteHeaderStore(t)
    \/ \E t \in Threads : WriteHeaderForward(t)
    \/ \E t \in Threads : WriteStore(t)
    \/ \E t \in Threads : WriteForward(t)



SpecWriter == InitWriter /\ [][NextWriter]_vars

(***************************************************************************)
(* SpecTask: one request of a Handler with the default Options whose       *)
(* handler spawns a task that keeps writing to the wrapped writer while    *)
(* HandleFunc goes on.                                                     *)
(***************************************************************************)
InitTask ==
    /\ Init
    /\ options = DefaultOptions
    /\ accept = <<>>

\* the HandlerError values the handler of SpecTask returns
TaskReturnedErrors == {HandlerError(s, NilError, NilError, Empty) : s \in HandlerStatusCodes}

NextTask ==
    \/ Begin
    \/ \E code \in HandlerCommitCodes : HandlerWriteHeader(code)
    \/ HandlerWrite
    \/ HandlerSpawn
    \/ \E code \in TaskCommitCodes : TaskWriteHeader(code)
    \/ TaskWrite
    \/ \E t \in Threads : WriteHeaderLoad(t)
    \/ \E t \in Threads : WriteHeaderStore(t)
    \/ \E t \in Threads : WriteHeaderForward(t)
    \/ \E t \in Threads : WriteStore(t)
    \/ \E t \in Threads : WriteForward(t)
    \/ HandlerReturnNil
    \/ \E e \in TaskReturnedErrors : HandlerReturnError(e)
    \/ Normalize
    \/ Log
    \/ CheckWritten
    \/ BuildAndNegotiate
    \/ SetContentType
    \/ CommitStatus
    \/ Encode
    \/ EncodeOK
    \/ LogEncodeError

SpecTask == InitTask /\ [][NextTask]_vars

(***************************************************************************)
(* SpecPair: the function HandleFunc returned serves one request after     *)
(* another with the same Handler; every call builds its own                *)
(* safeResponseWriter, request id and HandlerError.  prev keeps the        *)
(* request that was served last, as it ended.                              *)
(***************************************************************************)
\* what is kept of a request that has ended
FinishedRequest ==
    [result |-> result, returned |-> returned, accept |-> accept,
     requestUUID |-> requestUUID, ctxUUID |-> ctxUUID, uuidCalls |-> uuidCalls,
     wcalls |-> wcalls, underlying |-> underlying, logs |-> logs, wire |-> wire,
     chosen |-> chosen, encoded |-> encoded, hookCalls |-> hookCalls,
     outcome |-> outcome, crash |-> crash]

\* the server calls the function HandleFunc returned again, for the next request,
\* whose Accept header is one of accepts
NextRequest(accepts) ==
    /\ pc \in {"returned", "panicked"} /\ \A t \in Threads : call[t] = IdleCall
    /\ prev' = <<FinishedRequest>>
    /\ accept' \in accepts
    /\ pc' = "config"
    /\ written' = FALSE
    /\ underlying' = <<>> /\ wcalls' = <<>> /\ logs' = <<>>
    /\ err' = NoHandlerError /\ returned' = NoHandlerError /\ result' = "none"
    /\ requestUUID' = "" /\ ctxUUID' = "" /\ uuidCalls' = 0
    /\ wire' = NoWireError /\ chosen' = NoChoice /\ encoded' = <<>>
    /\ hookCalls' = <<>> /\ hops' = 0 /\ tops' = 0
    /\ outcome' = "none" /\ crash' = ""
    /\ UNCHANGED <<options, nsetup, setup, other, call, task>>

\* a Handler with the default Options; the caller may install a panic hook
InitPair ==
    /\ Init
    /\ options = DefaultOptions

\* the values the handler of SpecPair panics with
PairPayloads == {p \in PanicPayloads : p.kind \in {"nil", "string"}}

\* the HandlerError values the handler of SpecPair returns: those a panic and the
\* hook leave behind are among them
PairReturnedErrors ==
    { ApplyHook(PanicError(e), m) : e \in {q \in PairPayloads : Recovered(q)},
                                    m \in HookMutations }
    \cup { HandlerError(400, ErrorsNew("bad request"), i, Empty) : i \in HandlerInternalErrors }

\* two requests with the same headers: the handler panics in the first and
\* returns in the second
NextPair ==
    \/ SetCustomPanicHandler("custom")
    \/ Begin
    \/ HandlerWrite
    \/ WriteHeaderLoad("main")
    \/ WriteHeaderStore("main")
    \/ WriteHeaderForward("main")
    \/ WriteStore("main")
    \/ WriteForward("main")
    \/ HandlerReturnNil
    \/ \E e \in PairReturnedErrors : prev # <<>> /\ HandlerReturnError(e)
    \/ \E p \in PairPayloads : prev = <<>> /\ HandlerPanic(p)
    \/ Normalize
    \/ Log
    \/ CheckWritten
    \/ BuildAndNegotiate
    \/ SetContentType
    \/ CommitStatus
    \/ Encode
    \/ EncodeOK
    \/ LogEncodeError
    \/ prev = <<>> /\ NextRequest({accept})

SpecPair == InitPair /\ [][NextPair]_vars

(***************************************************************************)
(* SpecNeg: sendError's choice of encoder and content type, for failing    *)
(* requests with up to MaxNegAccept Accept values, overrides of every      *)
(* kind, and the registries of three Handlers.  A request that came        *)
(* without an Accept header and was answered is followed by a second one   *)
(* that fails with the same HandlerError and has any Accept header.        *)
(***************************************************************************)
\* Accept values: a registered type, the same with a q parameter, one in upper
\* case with a parameter, text/plain (an entry without an encoder in one
\* registry, no entry in the others), and the empty value, which does not parse
NegAcceptValues == {TextHTML, TextHTMLQ, AppJSONMixedQ, TextPlain, Empty}

\* the overrides (HandlerError.ContentType) of SpecNeg
NegContentTypes == {Empty, TextHTMLMixed, ImagePNG, TextPlain}

NegReturnedErrors ==
    {HandlerError(400, ErrorsNew("bad request"), NilError, c) : c \in NegContentTypes}

InitNeg ==
    InitOf({NilOptions, TestOptions, NilEntryOptions}, SeqsUpTo(NegAcceptValues, MaxNegAccept))

NextNeg ==
    \/ Begin
    \/ \E e \in NegReturnedErrors :
          (prev # <<>> => e = prev[1].returned) /\ HandlerReturnError(e)
    \/ Normalize
    \/ Log
    \/ CheckWritten
    \/ BuildAndNegotiate
    \/ SetContentType
    \/ CommitStatus
    \/ WriteHeaderLoad("main")
    \/ WriteHeaderStore("main")
    \/ WriteHeaderForward("main")
    \/ WriteStore("main")
    \/ WriteForward("main")
    \/ Encode
    \/ EncodeOK
    \/ LogEncodeError
    \/ /\ prev = <<>> /\ accept = <<>> /\ outcome = "EncodingOK"
       /\ NextRequest(SeqsUpTo(NegAcceptValues, MaxNegAccept))

SpecNeg == InitNeg /\ [][NextNeg]_vars

(***************************************************************************)
(* SpecOpts: an Options value the caller builds, the setters called on it, *)
(* New, and the setters called through the Handler.                        *)
(***************************************************************************)
\* var options Options
ZeroOptions ==
    [isNil |-> FALSE, LogFunc |-> Nil, Encoders |-> NilEncoders,
     FallbackEncoderFunc |-> NilFallback, RequestUUIDFunc |-> Nil,
     CustomPanicHandler |-> Nil]

\* an Options value whose registry the caller filled with a key in mixed case
MixedOptions ==
    [ZeroOptions EXCEPT !.Encoders =
        [isNil |-> FALSE,
         m |-> [k \in {TextHTMLMixed, AppJSON} |->
                   IF k = TextHTMLMixed THEN "testHTML" ELSE "testJSON"]]]

\* the Options values the caller starts from
RawOptions == {NilOptions, ZeroOptions, TestOptions, MixedOptions, NilEntryOptions}

\* the arguments the setters are called with
SetterContentTypes == {Empty, TextHTMLMixed, TextPlain}
SetterEncoders == {Nil, "custom"}
SetterFuncs == {Nil, "custom"}
SetterMaps ==
    {NilEncoders,
     [isNil |-> FALSE, m |-> EmptyMap],
     [isNil |-> FALSE, m |-> [k \in {TextHTMLMixed} |-> "custom"]],
     [isNil |-> FALSE, m |-> [k \in {TextCSVMixed, TextCSV} |->
                                 IF k = TextCSV THEN "custom" ELSE Nil]]}

InitOpts ==
    /\ options \in RawOptions
    /\ nsetup = 0
    /\ accept = <<>>
    /\ pc = "raw"
    /\ call = [t \in Threads |-> IdleCall]
    /\ written = FALSE
    /\ underlying = <<>>
    /\ wcalls = <<>>
    /\ logs = <<>>
    /\ err = NoHandlerError
    /\ returned = NoHandlerError
    /\ result = "none"
    /\ requestUUID = ""
    /\ ctxUUID = ""
    /\ uuidCalls = 0
    /\ wire = NoWireError
    /\ chosen = NoChoice
    /\ encoded = <<>>
    /\ hookCalls = <<>>
    /\ hops = 0
    /\ task = "none"
    /\ tops = 0
    /\ outcome = "none"
    /\ crash = ""
    /\ prev = <<>>
    /\ setup = <<>>
    /\ other = <<>>

NextOpts ==
    \/ \E f \in SetterFuncs : SetLogFunc(f)
    \/ \E m \in SetterMaps : SetEncoders(m)
    \/ \E ct \in SetterContentTypes, enc \in SetterEncoders : SetEncoder(ct, enc)
    \/ \E ct \in SetterContentTypes, enc \in SetterEncoders : SetFallbackEncoder(ct, enc)
    \/ \E f \in SetterFuncs : SetRequestUUIDFunc(f)
    \/ NewHandler

SpecOpts == InitOpts /\ [][NextOpts]_vars

(***************************************************************************)
(* SpecRemove: a Handler whose caller deletes an entry of the registry of  *)
(* the Options it was built from, before a request or between two.         *)
(***************************************************************************)
RemovedTypes == {TextHTML, AppJSON}
RemoveAcceptValues == {<<>>, <<TextHTML>>, <<AppJSONMixedQ>>}
RemoveReturnedErrors ==
    {HandlerError(0, ErrorsNew("unknown error"), NilError, c) : c \in {Empty, TextHTMLMixed}}

InitRemove == InitOf(GivenOptions, RemoveAcceptValues)

NextRemove ==
    \/ \E k \in RemovedTypes : RemoveEncoder(k)
    \/ Begin
    \/ \E e \in RemoveReturnedErrors : HandlerReturnError(e)
    \/ Normalize
    \/ Log
    \/ CheckWritten
    \/ BuildAndNegotiate
    \/ SetContentType
    \/ CommitStatus
    \/ WriteHeaderLoad("main")
    \/ WriteHeaderStore("main")
    \/ WriteHeaderForward("main")
    \/ WriteStore("main")
    \/ WriteForward("main")
    \/ Encode
    \/ EncodeOK
    \/ LogEncodeError
    \/ (prev = <<>> /\ NextRequest({accept}))

SpecRemove == InitRemove /\ [][NextRemove]_vars

(***************************************************************************)
(* SpecInternal: two requests served one after the other by one Handler,   *)
(* with the same headers; both handlers return a HandlerError, or both     *)
(* panic, and the second differs from the first in the InternalError or in *)
(* the panic's payload.                                                    *)
(***************************************************************************)
InternalAcceptValues == {<<>>, <<TextHTML>>}
InternalPayloads == {p \in PanicPayloads : p.kind \in {"nil", "string", "error"}}
InternalReturnedErrors ==
    { HandlerError(s, p, i, c) : s \in HandlerStatusCodes, p \in HandlerPublicErrors,
                                 i \in HandlerInternalErrors, c \in {Empty, TextHTMLMixed} }

InitInternal == InitOf(GivenOptions, InternalAcceptValues)

NextInternal ==
    \/ SetCustomPanicHandler("custom")
    \/ Begin
    \/ \E e \in InternalReturnedErrors :
          /\ prev # <<>> =>
                /\ prev[1].result = "error"
                /\ e = [prev[1].returned EXCEPT !.InternalError = e.InternalError]
          /\ HandlerReturnError(e)
    \/ \E p \in InternalPayloads :
          /\ prev # <<>> => prev[1].result = "panic"
          /\ HandlerPanic(p)
    \/ Normalize
    \/ Log
    \/ CheckWritten
    \/ BuildAndNegotiate
    \/ SetContentType
    \/ CommitStatus
    \/ WriteHeaderLoad("main")
    \/ WriteHeaderStore("main")
    \/ WriteHeaderForward("main")
    \/ WriteStore("main")
    \/ WriteForward("main")
    \/ Encode
    \/ EncodeOK
    \/ LogEncodeError
    \/ (prev = <<>> /\ outcome = "EncodingOK" /\ NextRequest({accept}))

SpecInternal == InitInternal /\ [][NextInternal]_vars

(***************************************************************************)
(* SpecBoth: the function HandleFunc returned runs for two requests at the *)
(* same time, as net/http calls it from one goroutine per connection.      *)
(* Every call has its own w, r, safeWriter, requestUUID and err; the       *)
(* Handler and its Options are shared.  The variables hold the request     *)
(* whose goroutine takes the next step and `other` the one that waits.     *)
(***************************************************************************)
\* the variables of one call of the function HandleFunc returned
Locals ==
    [accept |-> accept, pc |-> pc, call |-> call, written |-> written,
     underlying |-> underlying, wcalls |-> wcalls, logs |-> logs, err |-> err,
     returned |-> returned, result |-> result, requestUUID |-> requestUUID,
     ctxUUID |-> ctxUUID, uuidCalls |-> uuidCalls, wire |-> wire, chosen |-> chosen,
     encoded |-> encoded, hookCalls |-> hookCalls, hops |-> hops, task |-> task,
     tops |-> tops, outcome |-> outcome, crash |-> crash]

\* a call that has not started, for a request with the Accept header acc
FreshLocals(acc) ==
    [accept |-> acc, pc |-> "config", call |-> [t \in Threads |-> IdleCall],
     written |-> FALSE, underlying |-> <<>>, wcalls |-> <<>>, logs |-> <<>>,
     err |-> NoHandlerError, returned |-> NoHandlerError, result |-> "none",
     requestUUID |-> "", ctxUUID |-> "", uuidCalls |-> 0, wire |-> NoWireError,
     chosen |-> NoChoice, encoded |-> <<>>, hookCalls |-> <<>>, hops |-> 0,
     task |-> "none", tops |-> 0, outcome |-> "none", crash |-> ""]

\* two calls that use one safeResponseWriter flag
SwitchSharedFlag ==
    /\ other # <<>>
    /\ other' = <<Locals>>
    /\ accept' = other[1].accept /\ pc' = other[1].pc /\ call' = other[1].call
    /\ underlying' = other[1].underlying
    /\ wcalls' = other[1].wcalls /\ logs' = other[1].logs /\ err' = other[1].err
    /\ returned' = other[1].returned /\ result' = other[1].result
    /\ requestUUID' = other[1].requestUUID /\ ctxUUID' = other[1].ctxUUID
    /\ uuidCalls' = other[1].uuidCalls /\ wire' = other[1].wire
    /\ chosen' = other[1].chosen /\ encoded' = other[1].encoded
    /\ hookCalls' = other[1].hookCalls /\ hops' = other[1].hops /\ task' = other[1].task
    /\ tops' = other[1].tops /\ outcome' = other[1].outcome /\ crash' = other[1].crash
    /\ UNCHANGED <<options, nsetup, setup, prev, written>>

\* the scheduler lets the other request's goroutine run
Switch ==
    /\ other # <<>>
    /\ other' = <<Locals>>
    /\ accept' = other[1].accept /\ pc' = other[1].pc /\ call' = other[1].call
    /\ written' = other[1].written /\ underlying' = other[1].underlying
    /\ wcalls' = other[1].wcalls /\ logs' = other[1].logs /\ err' = other[1].err
    /\ returned' = other[1].returned /\ result' = other[1].result
    /\ requestUUID' = other[1].requestUUID /\ ctxUUID' = other[1].ctxUUID
    /\ uuidCalls' = other[1].uuidCalls /\ wire' = other[1].wire
    /\ chosen' = other[1].chosen /\ encoded' = other[1].encoded
    /\ hookCalls' = other[1].hookCalls /\ hops' = other[1].hops /\ task' = other[1].task
    /\ tops' = other[1].tops /\ outcome' = other[1].outcome /\ crash' = other[1].crash
    /\ UNCHANGED <<options, nsetup, setup, prev>>

\* the HandlerError values the handlers of SpecBoth return
BothReturnedErrors ==
    {HandlerError(0, NilError, NilError, Empty),
     HandlerError(400, ErrorsNew("bad request"), ErrorsNew("secret"), Empty)}

\* the server calls the function HandleFunc returned for a second request, with
\* the Accept header acc, while the first is being served
Arrive(acc) ==
    /\ other = <<>>
    /\ other' = <<FreshLocals(acc)>>
    /\ UNCHANGED <<options, prev, setup, nsetup, accept, pc, call, written, underlying, wcalls,
                   logs, err, returned, result, requestUUID, ctxUUID, uuidCalls, wire,
                   chosen, encoded, hookCalls, hops, task, tops, outcome, crash>>

InitBoth == InitOf(GivenOptions, {<<>>})

NextBoth ==
    \/ Begin
    \/ HandlerWrite
    \/ WriteHeaderLoad("main")
    \/ WriteHeaderStore("main")
    \/ WriteHeaderForward("main")
    \/ WriteStore("main")
    \/ WriteForward("main")
    \/ HandlerReturnNil
    \/ \E e \in BothReturnedErrors : HandlerReturnError(e)
    \/ Normalize
    \/ Log
    \/ CheckWritten
    \/ BuildAndNegotiate
    \/ SetContentType
    \/ CommitStatus
    \/ Encode
    \/ EncodeOK
    \/ LogEncodeError
    \/ Arrive(<<>>)
    \/ Switch

SpecBoth == InitBoth /\ [][NextBoth]_vars

(***************************************************************************)
(* SpecLive: one request served to its end.  HandleFunc runs on the        *)
(* goroutine net/http started for the request, and nothing in HandleFunc   *)
(* or sendError waits for another goroutine: a step that can be taken is   *)
(* taken.                                                                  *)
(***************************************************************************)
\* what the handler returns
LiveReturnedErrors ==
    { HandlerError(s, NilError, ErrorsNew("secret"), c) :
         s \in {0, 400}, c \in {Empty, TextHTMLMixed, ImagePNG} }

\* the request carries no Accept header: the override alone picks the encoder
InitLive == InitOf(GivenOptions, {<<>>})

NextLive ==
    \/ \E f \in {Nil, "custom"} : SetCustomPanicHandler(f)
    \/ Begin
    \/ \E code \in HandlerCommitCodes : HandlerWriteHeader(code)
    \/ HandlerWrite
    \/ WriteHeaderLoad("main")
    \/ WriteHeaderStore("main")
    \/ WriteHeaderForward("main")
    \/ WriteStore("main")
    \/ WriteForward("main")
    \/ HandlerReturnNil
    \/ \E e \in LiveReturnedErrors : HandlerReturnError(e)
    \/ \E p \in PanicPayloads : HandlerPanic(p)
    \/ Normalize
    \/ Log
    \/ CheckWritten
    \/ BuildAndNegotiate
    \/ SetContentType
    \/ CommitStatus
    \/ Encode
    \/ EncodeOK
    \/ LogEncodeError

SpecLive == InitLive /\ [][NextLive]_vars /\ WF_vars(NextLive)

(***************************************************************************)
(* SpecSwap: a request served while another goroutine calls                *)
(* SetFallbackEncoder on the Handler.  Options.SetFallbackEncoder assigns  *)
(* o.FallbackEncoderFunc and sendError reads it with no lock, channel or   *)
(* atomic between them: a data race.  The Go memory model lets such a read *)
(* of a word observe any write that does not happen after it: the read of  *)
(* the field gives the closure stored before or the new one, and a read of *)
(* a variable the new closure captured gives the value stored in it or the *)
(* zero value it had when the closure was allocated.                       *)
(***************************************************************************)
\* the values a call of h.options.FallbackEncoderFunc() can return, calls
\* being the SetFallbackEncoder call made since the request began
FallbackReads(opts, calls) ==
    IF calls = <<>> \/ calls[1].res # "nil" THEN {opts.FallbackEncoderFunc}
    ELSE {calls[1].before.FallbackEncoderFunc}
         \cup {[isNil |-> FALSE, enc |-> e, ct |-> c] :
                  e \in {opts.FallbackEncoderFunc.enc, Nil},
                  c \in {opts.FallbackEncoderFunc.ct, Empty}}

\* h.SetFallbackEncoder(contentType, encoder) called by another goroutine
\* while HandleFunc runs
SetFallbackEncoderDuring(contentType, encoder) ==
    /\ pc \in {"handler", "normalize", "log", "written", "negotiate"}
    /\ nsetup < MaxSetup
    /\ \E o \in SetFallbackEncoderOutcomes(options, contentType, encoder) :
          /\ options' = o.opts
          /\ setup' = <<SetterCall("SetFallbackEncoder", contentType, encoder,
                                   NilEncoders, o.res, options)>>
    /\ nsetup' = nsetup + 1
    /\ UNCHANGED <<prev, other, accept, pc, call, written, underlying, wcalls, logs, err,
                   returned, result, requestUUID, ctxUUID, uuidCalls, wire, chosen,
                   encoded, hookCalls, hops, task, tops, outcome, crash>>

\* sendError: errorToSend is built, then f and err.ContentType are resolved,
\* the fallback function being read under the race
BuildAndNegotiateDuring ==
    /\ pc = "negotiate"
    /\ wire' = WireError(err, requestUUID)
    /\ \E fb \in FallbackReads(options, setup) :
          LET n == Negotiate([options EXCEPT !.FallbackEncoderFunc = fb], err, accept)
          IN  /\ chosen' = n
              /\ err' = [err EXCEPT !.ContentType = n.ct]
    /\ pc' = "header"
    /\ UNCHANGED <<options, prev, setup, other, nsetup, accept, call, written, underlying, wcalls, logs,
                   returned, result, requestUUID, ctxUUID, uuidCalls, encoded, hookCalls,
                   hops, task, tops, outcome, crash>>

SwapReturnedErrors ==
    {HandlerError(400, ErrorsNew("bad request"), NilError, c) : c \in {Empty, ImagePNG}}

\* the arguments of the concurrent call
SwapContentTypes == {Empty, TextCSVMixed}
SwapEncoders == {Nil, "custom"}

InitSwap == InitOf(GivenOptions, {<<>>, <<TextPlain>>})

NextSwap ==
    \/ Begin
    \/ \E e \in SwapReturnedErrors : HandlerReturnError(e)
    \/ Normalize
    \/ Log
    \/ CheckWritten
    \/ BuildAndNegotiateDuring
    \/ SetContentType
    \/ CommitStatus
    \/ WriteHeaderLoad("main")
    \/ WriteHeaderStore("main")
    \/ WriteHeaderForward("main")
    \/ WriteStore("main")
    \/ WriteForward("main")
    \/ Encode
    \/ EncodeOK
    \/ LogEncodeError
    \/ \E c \in SwapContentTypes, e \in SwapEncoders : SetFallbackEncoderDuring(c, e)

SpecSwap == InitSwap /\ [][NextSwap]_vars

(***************************************************************************)
(* SpecServe: the caller builds an Options value, calls setters on it,     *)
(* calls New, calls setters through the Handler, and then a failing        *)
(* request is served by that Handler.                                      *)
(***************************************************************************)
\* the Options values the caller starts from
ServeOptions == {NilOptions, ZeroOptions, NilEntryOptions}

\* the arguments of the setters: valid and invalid ones, and a map holding an
\* entry without an encoder
ServeContentTypes == {Empty, TextCSVMixed}
ServeMaps ==
    {NilEncoders,
     [isNil |-> FALSE, m |-> [k \in {TextCSVMixed} |-> Nil]]}

ServeAcceptValues == {<<>>, <<TextCSV>>, <<TextPlain, TextHTML>>}

ServeReturnedErrors ==
    {HandlerError(400, ErrorsNew("bad request"), NilError, c) : c \in {Empty, TextCSVMixed}}

InitServe ==
    /\ options \in ServeOptions
    /\ nsetup = 0
    /\ accept \in ServeAcceptValues
    /\ pc = "raw"
    /\ call = [t \in Threads |-> IdleCall]
    /\ written = FALSE
    /\ underlying = <<>>
    /\ wcalls = <<>>
    /\ logs = <<>>
    /\ err = NoHandlerError
    /\ returned = NoHandlerError
    /\ result = "none"
    /\ requestUUID = ""
    /\ ctxUUID = ""
    /\ uuidCalls = 0
    /\ wire = NoWireError
    /\ chosen = NoChoice
    /\ encoded = <<>>
    /\ hookCalls = <<>>
    /\ hops = 0
    /\ task = "none"
    /\ tops = 0
    /\ outcome = "none"
    /\ crash = ""
    /\ prev = <<>>
    /\ setup = <<>>
    /\ other = <<>>

NextServe ==
    \/ \E f \in SetterFuncs : SetLogFunc(f)
    \/ \E m \in ServeMaps : SetEncoders(m)
    \/ \E ct \in ServeContentTypes, enc \in SetterEncoders : SetEncoder(ct, enc)
    \/ \E ct \in ServeContentTypes, enc \in SetterEncoders : SetFallbackEncoder(ct, enc)
    \/ \E f \in SetterFuncs : SetRequestUUIDFunc(f)
    \/ NewHandler
    \/ Begin
    \/ \E e \in ServeReturnedErrors : HandlerReturnError(e)
    \/ Normalize
    \/ Log
    \/ CheckWritten
    \/ BuildAndNegotiate
    \/ SetContentType
    \/ CommitStatus
    \/ WriteHeaderLoad("main")
    \/ WriteHeaderStore("main")
    \/ WriteHeaderForward("main")
    \/ WriteStore("main")
    \/ WriteForward("main")
    \/ Encode
    \/ EncodeOK
    \/ LogEncodeError

SpecServe == InitServe /\ [][NextServe]_vars

(***************************************************************************)
(* SpecJSON: DefaultJSONEncoder called with a WireError.  In options.go    *)
(* the encoder marshals e.Error and calls e.Error.Error(): the Error of    *)
(* the WireError it is given is an error value, kept here with its type.   *)
(* JSON text is a sequence of tokens: punctuation, names and characters.   *)
(***************************************************************************)
\* the JSON string for the characters s, as encoding/json writes it: quotes
\* and backslashes escaped, <, > and & written as \u00XX
RECURSIVE JSONEscape(_)
JSONEscape(s) ==
    IF s = <<>> THEN <<>>
    ELSE (CASE Head(s) = "\"" -> <<"\\", "\"">>
            [] Head(s) = "\\" -> <<"\\", "\\">>
            [] Head(s) = "<" -> <<"\\", "u", "0", "0", "3", "c">>
            [] Head(s) = ">" -> <<"\\", "u", "0", "0", "3", "e">>
            [] Head(s) = "&" -> <<"\\", "u", "0", "0", "2", "6">>
            [] OTHER -> <<Head(s)>>) \o JSONEscape(Tail(s))

JSONString(s) == <<"\"">> \o JSONEscape(s) \o <<"\"">>

\* the members of a struct, in declaration order: a field tagged omitempty is
\* left out when its value is empty
RECURSIVE JSONMembers(_)
JSONMembers(fields) ==
    IF fields = <<>> THEN <<>>
    ELSE LET f == Head(fields)
             rest == JSONMembers(Tail(fields))
         IN  IF f.omitempty /\ f.value = <<>> THEN rest
             ELSE <<"\"", f.name, "\"", ":">> \o JSONString(f.value)
                  \o (IF rest = <<>> THEN <<>> ELSE <<",">> \o rest)

\* error values by type: errors.New (a pointer to a struct without exported
\* fields), a struct with exported string fields, a string type, and a type
\* with its own MarshalJSON (raw: what it returns; fails: it returns an error)
ErrorString(text) ==
    [kind |-> "errorString", text |-> text, fields |-> <<>>, raw |-> <<>>, fails |-> FALSE]
StructError(text, fields) ==
    [kind |-> "struct", text |-> text, fields |-> fields, raw |-> <<>>, fails |-> FALSE]
StringError(text) ==
    [kind |-> "string", text |-> text, fields |-> <<>>, raw |-> <<>>, fails |-> FALSE]
MarshalerError(text, raw, fails) ==
    [kind |-> "marshaler", text |-> text, fields |-> <<>>, raw |-> raw, fails |-> fails]

\* json.Marshal(e.Error): [ok, buf]
JSONMarshal(e) ==
    CASE e.kind = "errorString" -> [ok |-> TRUE, buf |-> <<"{", "}">>]
      [] e.kind = "struct" ->
            [ok |-> TRUE, buf |-> <<"{">> \o JSONMembers(e.fields) \o <<"}">>]
      [] e.kind = "string" -> [ok |-> TRUE, buf |-> JSONString(e.text)]
      [] OTHER -> IF e.fails THEN [ok |-> FALSE, buf |-> <<>>]
                  ELSE [ok |-> TRUE, buf |-> e.raw]

StatusText(code) == IF code = 400 THEN "400" ELSE "500"

\* json.NewEncoder(w).Encode(errToSend)
JSONBody(code, member, uuid) ==
    <<"{", "\"", "StatusCode", "\"", ":", StatusText(code), ",",
      "\"", "Error", "\"", ":">> \o member
    \o <<",", "\"", "RequestUUID", "\"", ":", "\"", uuid, "\"", "}", "\n">>

\* DefaultJSONEncoder writing the marshaled form whenever there is one
DefaultJSONEncoderRaw(e) ==
    LET m == JSONMarshal(e.Error)
    IN  IF ~m.ok THEN [how |-> "err", body |-> <<>>]
        ELSE [how |-> "ok",
              body |-> JSONBody(e.StatusCode,
                                IF m.buf = <<>> THEN JSONString(e.Error.text) ELSE m.buf,
                                e.RequestUUID)]

\* DefaultJSONEncoder()(w, r, e): what it returns and what it writes
DefaultJSONEncoder(e) ==
    LET m == JSONMarshal(e.Error)
    IN  IF ~m.ok THEN [how |-> "err", body |-> <<>>]
        ELSE [how |-> "ok",
              body |-> JSONBody(e.StatusCode,
                                IF m.buf = <<>> \/ m.buf = <<"{", "}">> \/ m.buf = <<"null">>
                                THEN JSONString(e.Error.text) ELSE m.buf,
                                e.RequestUUID)]

JSONTexts == {<<>>, <<"o", "o", "p", "s">>, <<"a", "<", "\"", "b">>}

TitleField(v) == [name |-> "Title", value |-> v, omitempty |-> TRUE]
DetailsField(v) == [name |-> "Details", value |-> v, omitempty |-> FALSE]

JSONErrors ==
    {ErrorString(t) : t \in JSONTexts}
    \cup {StringError(t) : t \in JSONTexts}
    \cup {StructError(<<"o", "o", "p", "s">>, fs) :
             fs \in {<<TitleField(<<>>)>>, <<TitleField(<<"S", "o", "m", "e">>)>>,
                     <<TitleField(<<"S", "o", "m", "e">>), DetailsField(<<"N", "o">>)>>,
                     <<TitleField(<<>>), DetailsField(<<>>)>>}}
    \cup {MarshalerError(<<"o", "o", "p", "s">>, raw, FALSE) :
             raw \in {<<"null">>, <<"{", "}">>, <<"[", "]">>, <<"4", "2">>}}
    \cup {MarshalerError(<<"o", "o", "p", "s">>, <<>>, TRUE)}

JSONWireErrors ==
    {[isNil |-> FALSE, StatusCode |-> c, Error |-> e, RequestUUID |-> u] :
        c \in {400, 500}, e \in JSONErrors, u \in {"", "6ba7b810-9dad", "0123456789"}}

InitJSON ==
    /\ options = DefaultOptions
    /\ nsetup = 0
    /\ accept = <<>>
    /\ pc = "json"
    /\ call = [t \in Threads |-> IdleCall]
    /\ written = FALSE
    /\ underlying = <<>>
    /\ wcalls = <<>>
    /\ logs = <<>>
    /\ err = NoHandlerError
    /\ returned = NoHandlerError
    /\ result = "none"
    /\ requestUUID = ""
    /\ ctxUUID = ""
    /\ uuidCalls = 0
    /\ wire \in JSONWireErrors
    /\ chosen = NoChoice
    /\ encoded = <<>>
    /\ hookCalls = <<>>
    /\ hops = 0
    /\ task = "none"
    /\ tops = 0
    /\ outcome = "none"
    /\ crash = ""
    /\ prev = <<>>
    /\ setup = <<>>
    /\ other = <<>>

\* one call of the encoder on the WireError
CallDefaultJSONEncoder ==
    /\ pc = "json"
    /\ LET res == DefaultJSONEncoder(wire)
       IN  /\ encoded' = <<EncoderCall("DefaultJSONEncoder", wire, "", res.how)>>
           /\ underlying' = IF res.how = "ok"
                            THEN <<Event("Write", 0, "encoder", res.body)>>
                            ELSE <<>>
    /\ pc' = "returned"
    /\ UNCHANGED <<options, prev, setup, other, nsetup, accept, call, written, wcalls, logs, err,
                   returned, result, requestUUID, ctxUUID, uuidCalls, wire, chosen,
                   hookCalls, hops, task, tops, outcome, crash>>

NextJSON == CallDefaultJSONEncoder

SpecJSON == InitJSON /\ [][NextJSON]_vars

(***************************************************************************)
(* Properties.                                                             *)
(***************************************************************************)
\* the events of kind op that source `by` caused, in order
EventsOf(events, op, by) == SelectSeq(events, LAMBDA e : e.op = op /\ e.by = by)
\* the WriteHeader events the underlying writer received, in order
Commits == SelectSeq(underlying, LAMBDA e : e.op = "WriteHeader")
\* HandleFunc has ended, by returning or by a panic that left it
Ended == pc \in {"returned", "panicked"}

\* C1: when one thread alone makes N >= 1 WriteHeader calls in a row on a
\* safeResponseWriter (no Write, no other caller), the underlying writer receives
\* nothing but one WriteHeader, with the code of the first call: at most that
\* while a call is in progress, exactly that once the calls have returned.
C1_FirstWriteHeaderWins ==
    (/\ wcalls # <<>>
     /\ \A i \in DOMAIN wcalls : wcalls[i].op = "WriteHeader" /\ wcalls[i].by = "main")
    => /\ underlying \in {<<>>, <<wcalls[1]>>}
       /\ (call["main"] = IdleCall => underlying = <<wcalls[1]>>)

\* C1 witness: two WriteHeader calls with different codes have returned
C1_Witness ==
    /\ Len(wcalls) = 2 /\ call["main"] = IdleCall
    /\ \A i \in DOMAIN wcalls : wcalls[i].op = "WriteHeader" /\ wcalls[i].by = "main"
    /\ wcalls[1].code # wcalls[2].code
    /\ underlying = <<wcalls[1]>>

\* C2: when the calls made on one safeResponseWriter, by threads running
\* concurrently, are all WriteHeader calls, the underlying writer receives at most
\* one WriteHeader.
C2_AtMostOneCommit ==
    (\A i \in DOMAIN wcalls : wcalls[i].op = "WriteHeader") => Len(Commits) <= 1

\* C3: while a task spawned by the handler writes to the wrapped writer and
\* HandleFunc processes the HandlerError the handler returned, the underlying
\* writer never receives both bytes of the handler's logic and an encoder's error
\* body, nor a status commit of the orchestrator after bytes of the handler's
\* logic.
C3_NoErrorBodyOverHandlerBytes ==
    LET logic(i) == underlying[i].op = "Write" /\ underlying[i].by \in {"handler", "task"}
    IN  /\ ~ \E i, j \in DOMAIN underlying :
                logic(i) /\ underlying[j].op = "Write" /\ underlying[j].by = "encoder"
        /\ ~ \E i, j \in DOMAIN underlying :
                /\ i < j /\ logic(i)
                /\ underlying[j].op = "WriteHeader" /\ underlying[j].by = "orchestrator"

\* C4: once the handler has called WriteHeader or Write on the wrapped writer and
\* then returned a HandlerError or panicked, HandleFunc ends having called LogFunc
\* exactly once, having set no header, committed no status and called no encoder.
C4_WrittenThenFailedLogsOnce ==
    (Ended /\ hops >= 1 /\ result \in {"error", "panic"})
    => /\ Len(logs) = 1
       /\ \A i \in DOMAIN underlying : underlying[i].by = "handler"
       /\ \A i \in DOMAIN wcalls : wcalls[i].by = "handler"
       /\ encoded = <<>>

\* C5: a request makes no LogFunc call when the handler returns nil, exactly one
\* when the encoder that was called returned no error, exactly two when it
\* returned an error, and never more than two.
C5_LogCardinality ==
    /\ Len(logs) <= 2
    /\ (result = "nil" => logs = <<>>)
    /\ (Ended /\ encoded # <<>> /\ encoded[Len(encoded)].how = "ok" => Len(logs) = 1)
    /\ (Ended /\ encoded # <<>> /\ encoded[Len(encoded)].how \in {"err", "partial"}
           => Len(logs) = 2)

\* C5 witness: the encoder returned an error and the request ended with two log calls
C5_Witness ==
    /\ pc = "returned" /\ outcome = "EncodingFailed" /\ Len(logs) = 2
    /\ Len(encoded) = 1 /\ encoded[1].how = "err"

\* the status and public error HandleFunc must use for the HandlerError that
\* safeHandlerCall returned
ExpectedStatus == IF returned.StatusCode = 0 THEN 500 ELSE returned.StatusCode
ExpectedPublic ==
    IF returned.PublicError.isNil THEN ErrorsNew("unknown error") ELSE returned.PublicError

\* C6: every LogFunc call, the status the orchestrator commits and the WireError
\* carry 500 where the HandlerError had StatusCode 0 and "unknown error" where it
\* had no PublicError, and the HandlerError's own values where it had them: never
\* status 0, never an absent public error.
C6_Defaulting ==
    /\ \A i \in DOMAIN logs :
          /\ logs[i].statusCode = ExpectedStatus /\ logs[i].statusCode # 0
          /\ logs[i].publicError = ExpectedPublic /\ ~logs[i].publicError.isNil
    /\ \A i \in DOMAIN wcalls :
          wcalls[i].by = "orchestrator" => wcalls[i].code = ExpectedStatus /\ wcalls[i].code # 0
    /\ ~wire.isNil => /\ wire.StatusCode = ExpectedStatus /\ wire.StatusCode # 0
                      /\ wire.Error = ExpectedPublic.msg

\* C6 witness: a HandlerError with neither status nor public error was logged,
\* committed and encoded
C6_Witness ==
    /\ ~returned.isNil /\ returned.StatusCode = 0 /\ returned.PublicError.isNil
    /\ Len(logs) = 1 /\ logs[1].statusCode = 500
    /\ EventsOf(underlying, "WriteHeader", "orchestrator") # <<>>
    /\ encoded # <<>> /\ encoded[1].wire.Error = <<"unknown error">>

\* C7: when the handler panics before it wrote anything, HandleFunc ends with a
\* completed response: the orchestrator committed a status, 500 unless the hook
\* set one, and an encoder was given a WireError with the message "unknown error",
\* unless the hook set one, and a non-empty request id.
C7_PanicYieldsResponse ==
    (Ended /\ result = "panic" /\ hops = 0)
    => /\ Len(EventsOf(underlying, "WriteHeader", "orchestrator")) = 1
       /\ Len(encoded) = 1
       /\ (returned.StatusCode = 0 => encoded[1].wire.StatusCode = 500)
       /\ (returned.PublicError.isNil => encoded[1].wire.Error = <<"unknown error">>)
       /\ encoded[1].wire.RequestUUID # ""

\* C8: no panic leaves the function HandleFunc returns.
C8_NothingPropagates == pc # "panicked"

\* C9: with no panic hook configured, a handler panic does not leave
\* safeHandlerCall through the call of the hook.
C9_NilHookContained ==
    (options.CustomPanicHandler = Nil /\ result = "panic") => crash # "CustomPanicHandler"

\* C10: the StatusCode, PublicError and ContentType that the panic hook set are
\* the ones of every LogFunc call, of the status the orchestrator commits, of the
\* WireError and of the negotiation: the override is the hook's content type.
C10_HookValuesUsed ==
    hookCalls # <<>> =>
    LET set == hookCalls[1].set
        ct == ToLower(set.ContentType)
    IN  /\ set.StatusCode # 0 =>
              /\ \A i \in DOMAIN logs : logs[i].statusCode = set.StatusCode
              /\ \A i \in DOMAIN wcalls :
                    wcalls[i].by = "orchestrator" => wcalls[i].code = set.StatusCode
              /\ (~wire.isNil => wire.StatusCode = set.StatusCode)
        /\ ~set.PublicError.isNil =>
              /\ \A i \in DOMAIN logs : logs[i].publicError = set.PublicError
              /\ (~wire.isNil => wire.Error = set.PublicError.msg)
        /\ (set.ContentType # Empty /\ ~wire.isNil) =>
              IF ct \in DOMAIN options.Encoders.m /\ options.Encoders.m[ct] # Nil
              THEN chosen.enc = options.Encoders.m[ct] /\ chosen.ct = ct
              ELSE /\ chosen.enc = options.FallbackEncoderFunc.enc
                   /\ chosen.ct = ToLower(options.FallbackEncoderFunc.ct)

\* C10 witness: a hook set all three fields, and the request was logged, committed
\* and encoded with them although the client accepted another type
C10_Witness ==
    /\ hookCalls # <<>> /\ pc = "returned"
    /\ hookCalls[1].set = [StatusCode |-> 418, PublicError |-> ErrorsNew("hooked"),
                           ContentType |-> TextHTMLMixed]
    /\ Len(logs) = 1 /\ logs[1].statusCode = 418
    /\ EventsOf(underlying, "WriteHeader", "orchestrator")
          = <<Event("WriteHeader", 418, "orchestrator", <<>>)>>
    /\ Len(encoded) = 1 /\ encoded[1].wire.Error = <<"hooked">>
    /\ chosen.ct = TextHTML /\ accept = <<ImagePNG>>

\* two requests failed alike: the HandlerError safeHandlerCall returned, the
\* headers, the request id and the handler's calls on the writer are the same,
\* and the encoder, where both requests reached one, ended the same way
SameFailure(a, b) ==
    /\ ~a.returned.isNil /\ a.returned = b.returned
    /\ a.accept = b.accept /\ a.requestUUID = b.requestUUID
    /\ SelectSeq(a.wcalls, LAMBDA e : e.by = "handler")
          = SelectSeq(b.wcalls, LAMBDA e : e.by = "handler")
    /\ (a.encoded # <<>> /\ b.encoded # <<>>) => a.encoded[1].how = b.encoded[1].how

\* C11: a request whose handler panicked and a request whose handler returned a
\* HandlerError with the same StatusCode, PublicError, InternalError and
\* ContentType (the panic's as the hook left them) end with the same log calls,
\* the same calls on the writer (Content-Type header, committed status, the
\* encoder's writes), the same encoder invocation and the same terminal state.
C11_PanicAndReturnAlike ==
    (/\ prev # <<>> /\ pc = "returned"
     /\ prev[1].result = "panic" /\ result = "error"
     /\ SameFailure(prev[1], FinishedRequest))
    => /\ logs = prev[1].logs
       /\ underlying = prev[1].underlying
       /\ wcalls = prev[1].wcalls
       /\ encoded = prev[1].encoded
       /\ outcome = prev[1].outcome

\* C11 witness: a panic whose hook set status, public error and content type, and
\* a returned HandlerError with the same fields, both logged twice around a
\* failing encoder
C11_Witness ==
    /\ prev # <<>> /\ pc = "returned"
    /\ prev[1].result = "panic" /\ result = "error"
    /\ SameFailure(prev[1], FinishedRequest)
    /\ returned.StatusCode = 418 /\ returned.ContentType = TextHTMLMixed
    /\ Len(logs) = 2 /\ logs = prev[1].logs
    /\ Len(encoded) = 1 /\ encoded = prev[1].encoded
    /\ \E i \in DOMAIN underlying : underlying[i].op = "SetHeader"

\* sendError has resolved the encoder and the content type of this request
Negotiated == ~wire.isNil
\* the override: the ContentType of the HandlerError as safeHandlerCall returned it
Override == returned.ContentType
\* the registry of the Handler
Registry == options.Encoders.m
\* the bare media type of an Accept value, in lower case; empty if it does not parse
BareType(v) ==
    LET parsed == ParseMediaType(v)
    IN  IF parsed.ok THEN ToLower(parsed.mediaType) ELSE Empty
\* the first position, in header order, of an Accept value that parses and whose
\* bare type is a key; 0 if there is none
RECURSIVE FirstMatchFrom(_)
FirstMatchFrom(i) ==
    IF i > Len(accept) THEN 0
    ELSE IF BareType(accept[i]) \in DOMAIN Registry THEN i
    ELSE FirstMatchFrom(i + 1)
\* the type of that value
TypeAt(i) == BareType(accept[i])
\* the values of the Content-Type header that were set, in order
HeaderSets == SelectSeq(underlying, LAMBDA e : e.op = "SetHeader")

\* C12: when the override is non-empty and its lower-case form is a registry key
\* with a present encoder, sendError resolves that encoder and the lower-case
\* type, whatever the Accept header holds.
C12_OverrideWins ==
    (/\ Negotiated /\ Override # Empty
     /\ ToLower(Override) \in DOMAIN Registry /\ Registry[ToLower(Override)] # Nil)
    => /\ chosen.enc = Registry[ToLower(Override)]
       /\ chosen.ct = ToLower(Override)
       /\ ~chosen.fallback

\* C12 witness: the override Text/HTML is used although the only Accept value
\* names application/json, which has another encoder
C12_Witness ==
    /\ pc = "returned" /\ Override = TextHTMLMixed /\ accept = <<AppJSONMixedQ>>
    /\ AppJSON \in DOMAIN Registry /\ Registry[AppJSON] # Registry[TextHTML]
    /\ chosen.ct = TextHTML /\ chosen.enc = Registry[TextHTML]
    /\ HeaderSets = <<Event("SetHeader", 0, "orchestrator", TextHTML)>>

\* C13 as stated: with no override, getPreferredContentType returns the encoder
\* and type of the first Accept value, in header order, whose bare media type is
\* a registry key, q parameters playing no part; and a request whose only Accept
\* value is a registered key T is answered with Content-Type T.
C13_FirstAcceptMatchAnswered ==
    (Negotiated /\ Override = Empty)
    => LET first == FirstMatchFrom(1)
           type == TypeAt(first)
       IN  first # 0
           => /\ GetPreferredContentType(options, accept)
                    = [enc |-> Registry[type], ct |-> type]
              /\ (Len(accept) = 1 => chosen.ct = type /\ ~chosen.fallback)

\* C13, amended: with no override, getPreferredContentType returns the encoder
\* and type of the first Accept value, in header order, whose bare media type is
\* a registry key, q parameters playing no part; when that key has a present
\* encoder, the request is answered by that encoder with that Content-Type, and
\* so is a request whose only Accept value is a registered key T with a present
\* encoder.
C13_FirstAcceptMatch ==
    (Negotiated /\ Override = Empty)
    => LET first == FirstMatchFrom(1)
           type == TypeAt(first)
       IN  first # 0
           => /\ GetPreferredContentType(options, accept)
                    = [enc |-> Registry[type], ct |-> type]
              /\ (Registry[type] # Nil
                     => /\ chosen.enc = Registry[type]
                        /\ chosen.ct = type /\ ~chosen.fallback
                        /\ \A i \in DOMAIN HeaderSets : HeaderSets[i].value = type)

\* C13 witness: Accept lists text/html;q=0.1 before Application/JSON; Q=0.9, both
\* registered: the answer is text/html
C13_Witness ==
    /\ pc = "returned" /\ Override = Empty /\ accept = <<TextHTMLQ, AppJSONMixedQ>>
    /\ {TextHTML, AppJSON} \subseteq DOMAIN Registry
    /\ chosen.ct = TextHTML /\ chosen.enc = Registry[TextHTML]
    /\ HeaderSets = <<Event("SetHeader", 0, "orchestrator", TextHTML)>>

\* C14 as stated: sendError resolves the fallback pair if and only if the
\* override is empty or names a type that is not registered, and no Accept value
\* matches a registered key.
C14_FallbackIffNoMatchAtAll ==
    Negotiated
    => (chosen.fallback
          <=> /\ (Override = Empty \/ ToLower(Override) \notin DOMAIN Registry)
              /\ FirstMatchFrom(1) = 0)

\* C14, amended: sendError resolves the fallback pair if and only if either the
\* override is non-empty and names no registered type with a present encoder
\* (the Accept header is then not consulted), or the override is empty and no
\* Accept value matches a registered key or the first that matches has no
\* encoder; a request with no Accept header and no override gets the fallback
\* pair.
C14_FallbackTriggers ==
    Negotiated
    => /\ chosen.fallback
          <=> IF Override # Empty
              THEN ToLower(Override) \notin DOMAIN Registry \/ Registry[ToLower(Override)] = Nil
              ELSE LET first == FirstMatchFrom(1)
                   IN  first = 0 \/ Registry[TypeAt(first)] = Nil
       /\ chosen.fallback
          => /\ chosen.enc = options.FallbackEncoderFunc.enc
             /\ chosen.ct = ToLower(options.FallbackEncoderFunc.ct)
       /\ (Override = Empty /\ accept = <<>>) => chosen.fallback

\* C14 witness: the override names a type without encoder and the Accept value a
\* registered one: the fallback pair answers
C14_Witness ==
    /\ pc = "returned" /\ Override = ImagePNG /\ accept = <<TextHTML>>
    /\ TextHTML \in DOMAIN Registry /\ Registry[TextHTML] # Nil
    /\ chosen.fallback /\ chosen.enc = options.FallbackEncoderFunc.enc
    /\ Len(encoded) = 1 /\ encoded[1].enc = options.FallbackEncoderFunc.enc

\* C15: two failing requests with the same non-empty override that differ in
\* their Accept headers resolve to the same encoder and the same Content-Type,
\* whether the override names a registered type or not.
C15_AcceptIgnoredUnderOverride ==
    (/\ prev # <<>> /\ Negotiated /\ ~prev[1].wire.isNil
     /\ returned = prev[1].returned /\ Override # Empty)
    => /\ chosen = prev[1].chosen
       /\ \A i \in DOMAIN HeaderSets :
             HeaderSets[i] \in {prev[1].underlying[j] : j \in DOMAIN prev[1].underlying}

\* C15 witness: the override names an unregistered type; the first request has no
\* Accept header, the second accepts a registered type, and both get the
\* fallback pair
C15_Witness ==
    /\ prev # <<>> /\ pc = "returned" /\ prev[1].returned = returned
    /\ Override = ImagePNG /\ prev[1].accept = <<>> /\ accept = <<TextHTML, AppJSONMixedQ>>
    /\ FirstMatchFrom(1) = 1
    /\ chosen = prev[1].chosen /\ chosen.fallback
    /\ Len(HeaderSets) = 1

\* the content type sendError resolved, before it is put in lower case
Resolved ==
    IF chosen.fallback THEN options.FallbackEncoderFunc.ct
    ELSE IF Override # Empty THEN Override
    ELSE ParseMediaType(accept[FirstMatchFrom(1)]).mediaType

\* C16: in a failing request in which nothing was written before the written
\* check, the Content-Type header is set exactly once, before the status is
\* committed, and its value is the lower-case form of the resolved content type:
\* the override, the matched Accept media type or the fallback type.
C16_ContentTypeSetOnce ==
    /\ Len(HeaderSets) <= 1
    /\ (pc \in {"commit", "encode", "encoded"} \/ (Ended /\ Negotiated))
       => /\ Len(HeaderSets) = 1
          /\ HeaderSets[1].value = ToLower(Resolved)
          /\ HeaderSets[1].value = ToLower(HeaderSets[1].value)

\* C16 witness: the fallback content type Text/CSV was set as text/csv, once
C16_Witness ==
    /\ pc = "returned" /\ chosen.fallback /\ options.FallbackEncoderFunc.ct = TextCSVMixed
    /\ HeaderSets = <<Event("SetHeader", 0, "orchestrator", TextCSV)>>

\* C17: a request calls at most one encoder, once, and the orchestrator commits
\* at most one status; when that encoder returned an error, LogFunc was called a
\* second time, with an error that names the resolved content type and wraps the
\* encoder's error and with the internal error, public error, status and request
\* id of the first call, and nothing else was tried.
C17_NoRetryAfterEncoderError ==
    /\ Len(encoded) <= 1
    /\ Len(EventsOf(wcalls, "WriteHeader", "orchestrator")) <= 1
    /\ (Ended /\ encoded # <<>> /\ encoded[1].how \in {"err", "partial"})
       => /\ encoded[1].enc = chosen.enc
          /\ Len(logs) = 2
          /\ logs[2].handlerError
                = ErrorsWrapf(ErrorsNew("encoder error"), "unable to encode", chosen.ct)
          /\ logs[2] = [logs[1] EXCEPT !.handlerError = logs[2].handlerError]
          /\ Len(EventsOf(wcalls, "WriteHeader", "orchestrator")) = 1
          /\ Len(HeaderSets) = 1

\* C17 witness: the encoder registered for text/html wrote part of the body and
\* returned an error; the request ended with the second log call naming text/html
C17_Witness ==
    /\ pc = "returned" /\ outcome = "EncodingFailed"
    /\ Len(encoded) = 1 /\ encoded[1].how = "partial" /\ ~chosen.fallback
    /\ Len(logs) = 2 /\ logs[2].handlerError.quoted = TextHTML
    /\ logs[2].handlerError.msg = <<"unable to encode", ": ", "encoder error">>

\* C18: RequestUUIDFunc is called once per request, and the value it returned is
\* the one GetRequestUUID yields in the handler and in the encoder, the one in the
\* context given to the panic hook, the RequestUUID of the WireError and the
\* requestUUID of every LogFunc call.
C18_OneRequestUUID ==
    /\ uuidCalls = (IF pc = "config" THEN 0 ELSE 1)
    /\ pc \notin {"config", "panicked"} => GetRequestUUID(ctxUUID) = requestUUID
    /\ \A i \in DOMAIN hookCalls : hookCalls[i].ctxUUID = requestUUID
    /\ \A i \in DOMAIN encoded : encoded[i].ctxUUID = requestUUID
    /\ \A i \in DOMAIN encoded : encoded[i].wire.RequestUUID = requestUUID
    /\ ~wire.isNil => wire.RequestUUID = requestUUID
    /\ \A i \in DOMAIN logs : logs[i].requestUUID = requestUUID

\* C18 witness: the id 0123456789 of the caller's generator reached the panic
\* hook, both log calls, the WireError and the encoder
C18_Witness ==
    /\ pc = "returned" /\ uuidCalls = 1 /\ requestUUID = "0123456789"
    /\ Len(hookCalls) = 1 /\ hookCalls[1].ctxUUID = "0123456789"
    /\ Len(logs) = 2 /\ logs[1].requestUUID = "0123456789"
    /\ logs[2].requestUUID = "0123456789"
    /\ Len(encoded) = 1 /\ encoded[1].ctxUUID = "0123456789"
    /\ encoded[1].wire.RequestUUID = "0123456789"

\* C19: when the handler returned nil, HandleFunc has returned at once: no log
\* call, no header set, no status committed by the orchestrator, no encoder
\* called, whether the handler wrote to the response or not.
C19_NilReturnNoAction ==
    result = "nil"
    => /\ pc = "returned" /\ outcome = "Success"
       /\ logs = <<>> /\ encoded = <<>> /\ hookCalls = <<>>
       /\ wire.isNil /\ HeaderSets = <<>>
       /\ \A i \in DOMAIN wcalls : wcalls[i].by = "handler"
       /\ \A i \in DOMAIN underlying : underlying[i].by = "handler"
       /\ call["main"] = IdleCall

\* C19 witness: the handler committed a status and returned nil; only its own
\* call reached the underlying writer
C19_Witness ==
    /\ result = "nil" /\ pc = "returned"
    /\ Len(underlying) = 1 /\ underlying[1].op = "WriteHeader" /\ underlying[1].by = "handler"
    /\ logs = <<>> /\ encoded = <<>>

\* the Write calls made on the writer that have returned
WritesReturned ==
    Cardinality({i \in DOMAIN wcalls : wcalls[i].op = "Write"})
    - Cardinality({t \in Threads : call[t].op = "Write"})

\* C20: every Write call on a safeResponseWriter that has returned was forwarded
\* to the underlying writer, whether the flag was set before it or not, and the
\* flag is true from the Write's store on.
C20_WriteAlwaysForwards ==
    /\ Len(SelectSeq(underlying, LAMBDA e : e.op = "Write")) = WritesReturned
    /\ (WritesReturned > 0 \/ \E t \in Threads : call[t].op = "Write" /\ call[t].step = "forward")
       => Written

\* C20 witness: a status commit was followed by two Write calls, and both reached
\* the underlying writer after it
C20_Witness ==
    /\ \A t \in Threads : call[t] = IdleCall
    /\ Len(underlying) = 3 /\ underlying[1].op = "WriteHeader"
    /\ underlying[2].op = "Write" /\ underlying[3].op = "Write"
    /\ Len(wcalls) = 3 /\ wcalls[1].op = "WriteHeader" /\ Written

\* C21: a WriteHeader call that checks the flag of a safeResponseWriter after a
\* Write call on it has returned goes no further: its next step is its return,
\* with no store and nothing forwarded to the underlying writer.
C21_NoCommitAfterWrite ==
    [][\A t \in Threads :
          (call[t].op = "WriteHeader" /\ call[t].step = "load" /\ WritesReturned > 0)
          => /\ call'[t] \in {call[t], IdleCall}
             /\ (underlying' # underlying => underlying'[Len(underlying')].by # t)]_vars

\* C21 witness: one thread wrote and then committed a status; both calls have
\* returned and the underlying writer received the Write alone
C21_Witness ==
    /\ Len(wcalls) = 2 /\ \A t \in Threads : call[t] = IdleCall
    /\ wcalls[1].op = "Write" /\ wcalls[2].op = "WriteHeader"
    /\ wcalls[1].by = "main" /\ wcalls[2].by = "main"
    /\ underlying = <<wcalls[1]>>

\* the WriteHeader and Write calls made on the writer that have returned
CallsReturned == Len(wcalls) - Cardinality({t \in Threads : call[t] # IdleCall})

\* C22: before and after every step, Written() is false if neither WriteHeader
\* nor Write has been called on the safeResponseWriter (it starts false) and true
\* if a WriteHeader or Write call has returned; and no step takes the flag from
\* true back to false.
C22_WrittenIffCalled ==
    [][/\ wcalls = <<>> => ~Written
       /\ wcalls' = <<>> => ~Written'
       /\ CallsReturned > 0 => Written
       /\ CallsReturned' > 0 => Written'
       /\ Written => Written']_vars

\* C22 witness: the one call made so far, a WriteHeader, has returned and
\* Written() is true
C22_Witness ==
    /\ Len(wcalls) = 1 /\ wcalls[1].op = "WriteHeader"
    /\ \A t \in Threads : call[t] = IdleCall
    /\ Written

\* the last setter call
LastSetup == setup[1]

\* C23: a setter called with invalid input (SetEncoder or SetFallbackEncoder with
\* an empty content type or an absent encoder, SetEncoders with an absent map,
\* SetLogFunc or SetRequestUUIDFunc with an absent function) returns an error and
\* leaves the Options as they were.
C23_InvalidInputRefused ==
    setup # <<>> =>
        LET c == LastSetup
            invalid ==
                \/ c.op \in {"SetEncoder", "SetFallbackEncoder"} /\ (c.ct = Empty \/ c.f = Nil)
                \/ c.op = "SetEncoders" /\ c.m.isNil
                \/ c.op \in {"SetLogFunc", "SetRequestUUIDFunc"} /\ c.f = Nil
        IN  invalid => c.res = "error" /\ options = c.before

\* C23 witness: SetEncoder was called with a content type and no encoder on
\* Options that a valid setter call had changed before; it returned an error
C23_Witness ==
    /\ setup # <<>> /\ nsetup = 2
    /\ LastSetup.op = "SetEncoder" /\ LastSetup.ct = TextPlain /\ LastSetup.f = Nil
    /\ LastSetup.res = "error" /\ options = LastSetup.before
    /\ options.LogFunc = "custom" /\ pc = "raw"

\* C24: once New has run, and after any setter calls that follow, every key of
\* the encoder registry is in lower case.
C24_RegistryKeysLowercase ==
    pc = "config" => \A k \in DOMAIN options.Encoders.m : k = ToLower(k)

\* C25: SetEncoders called with a present map returns no error whatever the
\* Options are, a registry that was never made included, and afterwards the
\* registry holds every entry it held before (under its key, with its encoder
\* unless the call stored that key) and, for each key of the map, its lower-case
\* form with the encoder of a key of the map that has this lower-case form.
C25_SetEncodersNeverFails ==
    (setup # <<>> /\ LastSetup.op = "SetEncoders" /\ ~LastSetup.m.isNil) =>
        LET given == LastSetup.m.m
            old == LastSetup.before.Encoders.m
            now == options.Encoders.m
            lows == {ToLower(k) : k \in DOMAIN given}
        IN  /\ LastSetup.res = "nil"
            /\ DOMAIN now = DOMAIN old \cup lows
            /\ \A k \in DOMAIN old \ lows : now[k] = old[k]
            /\ \A l \in lows : \E k \in DOMAIN given : ToLower(k) = l /\ now[l] = given[k]

\* C26: the registry is read when a request is served: once an entry has been
\* deleted from the registry of the Options the Handler was built from, a failing
\* request with no override whose one Accept value names the deleted type is
\* resolved to the fallback encoder and the fallback content type, which is the
\* Content-Type header set, and the fallback encoder is the one called.
C26_RemovedTypeGetsFallback ==
    (/\ Negotiated /\ setup # <<>> /\ LastSetup.op = "delete"
     /\ Override = Empty /\ Len(accept) = 1 /\ BareType(accept[1]) = LastSetup.ct)
    => /\ chosen.fallback
       /\ chosen.enc = options.FallbackEncoderFunc.enc
       /\ chosen.ct = ToLower(options.FallbackEncoderFunc.ct)
       /\ \A i \in DOMAIN HeaderSets : HeaderSets[i].value = chosen.ct
       /\ \A i \in DOMAIN encoded : encoded[i].enc = options.FallbackEncoderFunc.enc

\* C26 witness: a request with Accept: text/html was answered as text/html; the
\* entry was deleted; the next request with the same Accept header was answered
\* by the fallback encoder as application/json
C26_Witness ==
    /\ prev # <<>> /\ prev[1].accept = <<TextHTML>> /\ prev[1].chosen.ct = TextHTML
    /\ ~prev[1].chosen.fallback /\ prev[1].outcome = "EncodingOK"
    /\ setup # <<>> /\ LastSetup.op = "delete" /\ LastSetup.ct = TextHTML
    /\ accept = <<TextHTML>> /\ pc = "returned" /\ outcome = "EncodingOK"
    /\ chosen.fallback /\ chosen.ct = AppJSON
    /\ HeaderSets = <<Event("SetHeader", 0, "orchestrator", AppJSON)>>
    /\ Len(encoded) = 1 /\ encoded[1].enc = "DefaultJSONEncoder"

\* C27: New gives every absent field its default and keeps every supplied field:
\* New(nil) and a nil registry give the registry of exactly application/json,
\* application/xml, text/xml and text/html; a nil fallback gives the JSON encoder
\* with application/json; a supplied log function, id function, panic hook or
\* fallback pair is the one the Handler holds; a supplied registry gets no default
\* entry, holds only encoders that were supplied, under the supplied keys and
\* their lower-case forms, and is untouched when its keys are in lower case.
C27_NewFillsAbsentFields ==
    (setup # <<>> /\ LastSetup.op = "New") =>
        LET given == LastSetup.before
            old == given.Encoders.m
            now == options.Encoders.m
            pick(f, d) == IF f = Nil THEN d ELSE f
        IN  IF given.isNil
            THEN /\ options = DefaultOptions
                 /\ DOMAIN now = {AppJSON, AppXML, TextXML, TextHTML}
                 /\ options.FallbackEncoderFunc.enc = "DefaultJSONEncoder"
                 /\ options.FallbackEncoderFunc.ct = AppJSON
            ELSE /\ options.LogFunc = pick(given.LogFunc, "default")
                 /\ options.RequestUUIDFunc = pick(given.RequestUUIDFunc, "default")
                 /\ options.CustomPanicHandler = pick(given.CustomPanicHandler, "default")
                 /\ IF given.FallbackEncoderFunc.isNil
                    THEN /\ options.FallbackEncoderFunc.enc = "DefaultJSONEncoder"
                         /\ options.FallbackEncoderFunc.ct = AppJSON
                    ELSE options.FallbackEncoderFunc = given.FallbackEncoderFunc
                 /\ ~options.Encoders.isNil
                 /\ IF given.Encoders.isNil
                    THEN /\ DOMAIN now = {AppJSON, AppXML, TextXML, TextHTML}
                         /\ options.Encoders = DefaultEncoders
                    ELSE /\ DOMAIN now = DOMAIN old \cup {ToLower(k) : k \in DOMAIN old}
                         /\ \A k \in DOMAIN now :
                               \E j \in DOMAIN old : ToLower(j) = ToLower(k) /\ now[k] = old[j]
                         /\ (\A k \in DOMAIN old : k = ToLower(k)) => now = old

\* C27 witness: New was given Options with a log function, a registry and a
\* fallback pair but no panic hook; the Handler holds the three as supplied and
\* the default hook
C27_Witness ==
    /\ setup # <<>> /\ LastSetup.op = "New" /\ ~LastSetup.before.isNil
    /\ LastSetup.before.LogFunc = "custom" /\ options.LogFunc = "custom"
    /\ LastSetup.before.CustomPanicHandler = Nil /\ options.CustomPanicHandler = "default"
    /\ options.FallbackEncoderFunc.ct = AppOctetStream
    /\ options.Encoders = LastSetup.before.Encoders
    /\ DOMAIN options.Encoders.m = {TextHTML, AppJSON}

\* the Content-Type values set and the status codes the orchestrator committed
\* on the underlying writer whose calls are u
ClientHead(u) ==
    SelectSeq(u, LAMBDA e : e.op = "SetHeader" \/ (e.op = "WriteHeader" /\ e.by = "orchestrator"))
\* no hook changed the HandlerError of the panic
NoHookMutation(calls) == \A i \in DOMAIN calls : calls[i].set = NoMutation
\* the HandlerError e with its InternalError taken out
WithoutInternal(e) == [e EXCEPT !.InternalError = NilError]

\* C28: the InternalError reaches LogFunc and nothing else: the WireError built
\* and given to the encoder is the one built from the HandlerError without its
\* InternalError; and of two requests with the same headers and request id that
\* both ended in a HandlerError, from a return or from a panic no hook changed,
\* and that differ in nothing but the InternalError (for panics: the payload),
\* the second sets the same Content-Type, commits the same status and builds the
\* same WireError as the first, as far as it gets.
C28_InternalErrorNotSent ==
    /\ \A i \in DOMAIN logs : logs[i].internalError = returned.InternalError
    /\ Negotiated => wire = WireError(Normalized(WithoutInternal(returned)), requestUUID)
    /\ \A i \in DOMAIN encoded : encoded[i].wire = wire
    /\ (/\ prev # <<>> /\ ~returned.isNil /\ ~prev[1].returned.isNil
        /\ requestUUID = prev[1].requestUUID /\ accept = prev[1].accept
        /\ result = prev[1].result
        /\ WithoutInternal(returned) = WithoutInternal(prev[1].returned)
        /\ NoHookMutation(hookCalls) /\ NoHookMutation(prev[1].hookCalls))
       => /\ Negotiated => wire = prev[1].wire /\ chosen = prev[1].chosen
          /\ \A i \in DOMAIN ClientHead(underlying) :
                ClientHead(underlying)[i] = ClientHead(prev[1].underlying)[i]
          /\ \A i \in DOMAIN encoded : encoded[i].wire = prev[1].encoded[i].wire

\* C28 witness: two requests whose handlers returned HandlerErrors that differ in
\* the InternalError alone were answered with the same header, status and
\* WireError, and LogFunc was given the two different internal errors
C28_Witness ==
    /\ prev # <<>> /\ pc = "returned" /\ outcome = "EncodingOK" /\ result = "error"
    /\ prev[1].result = "error"
    /\ returned.InternalError # prev[1].returned.InternalError
    /\ ~returned.InternalError.isNil
    /\ WithoutInternal(returned) = WithoutInternal(prev[1].returned)
    /\ requestUUID = prev[1].requestUUID
    /\ logs[1].internalError # prev[1].logs[1].internalError
    /\ wire = prev[1].wire /\ encoded[1].wire = prev[1].encoded[1].wire
    /\ Len(ClientHead(underlying)) = 2
    /\ ClientHead(underlying) = ClientHead(prev[1].underlying)

\* C29: as long as LogFunc has not been called, HandleFunc has not read the
\* written flag, set no Content-Type header, committed no status and called no
\* encoder; and every request in which safeHandlerCall yielded a HandlerError has
\* made the call once HandleFunc is past it, whether sendError then runs or not.
C29_LogBeforeResponse ==
    /\ logs = <<>>
       => /\ pc \notin {"written", "negotiate", "header", "commit", "encode", "encoded"}
          /\ HeaderSets = <<>> /\ wire.isNil /\ encoded = <<>>
          /\ \A i \in DOMAIN wcalls : wcalls[i].by # "orchestrator"
          /\ \A i \in DOMAIN underlying : underlying[i].by # "orchestrator"
    /\ (~returned.isNil /\ pc \notin {"normalize", "log"}) => logs # <<>>

\* C29 witness: the handler wrote a body and returned a HandlerError; LogFunc was
\* called once and HandleFunc returned at its check of the flag, writing nothing
C29_Witness ==
    /\ pc = "returned" /\ result = "error" /\ hops >= 1 /\ Written
    /\ Len(logs) = 1 /\ wire.isNil /\ encoded = <<>> /\ HeaderSets = <<>>
    /\ \A i \in DOMAIN underlying : underlying[i].by = "handler"

\* the status commits sendError made through the safeResponseWriter
OrchestratorCommits == EventsOf(wcalls, "WriteHeader", "orchestrator")

\* C30: sendError sets the Content-Type header, then calls WriteHeader on the
\* safeResponseWriter, then calls the encoder with the WireError: the header is
\* set at most once and is set when the status commit is made; the commit is made
\* once and has returned when the encoder is called; and on the underlying writer
\* the header precedes the orchestrator's status, which precedes the encoder's
\* bytes.
C30_HeaderStatusEncoder ==
    /\ Len(HeaderSets) <= 1 /\ Len(OrchestratorCommits) <= 1 /\ Len(encoded) <= 1
    /\ OrchestratorCommits # <<>> => Len(HeaderSets) = 1
    /\ (encoded # <<>> \/ pc \in {"encode", "encoded"}) => Len(OrchestratorCommits) = 1
    /\ encoded # <<>>
       => /\ encoded[1].wire = wire
          /\ ~ \E t \in Threads : call[t].op = "WriteHeader" /\ call[t].by = "orchestrator"
    /\ \A i, j \in DOMAIN underlying :
          (\/ /\ underlying[i].op = "SetHeader"
              /\ underlying[j].by \in {"orchestrator", "encoder"} /\ underlying[j].op # "SetHeader"
           \/ /\ underlying[i].op = "WriteHeader" /\ underlying[i].by = "orchestrator"
              /\ underlying[j].by = "encoder")
          => i < j

\* C30 witness: a request answered by sendError: the underlying writer received
\* the header, then the status, then the encoder's body
C30_Witness ==
    /\ pc = "returned" /\ outcome = "EncodingOK" /\ Len(underlying) = 3
    /\ underlying[1].op = "SetHeader"
    /\ underlying[2].op = "WriteHeader" /\ underlying[2].by = "orchestrator"
    /\ underlying[3].op = "Write" /\ underlying[3].by = "encoder"
    /\ Len(encoded) = 1 /\ encoded[1].wire = wire

\* C31: the panic hook is called exactly once in a request whose handler
\* panicked and never in a request whose handler returned; it is called before
\* the defaults are applied and before the first LogFunc call; the HandlerError
\* it is given has StatusCode 0, no PublicError, an empty ContentType and an
\* InternalError whose message is "panic: " followed by the panic's message.
C31_HookOncePerPanic ==
    /\ result \in {"nil", "error"} => hookCalls = <<>>
    /\ result = "panic" => Len(hookCalls) = 1
    /\ hookCalls # <<>> => result = "panic"
    /\ (pc \in {"config", "handler"} /\ hookCalls = <<>>) => logs = <<>>
    /\ \A i \in DOMAIN hookCalls :
          /\ hookCalls[i].err.StatusCode = 0
          /\ hookCalls[i].err.PublicError.isNil
          /\ hookCalls[i].err.ContentType = Empty
          /\ ~hookCalls[i].err.InternalError.isNil
          /\ Len(hookCalls[i].err.InternalError.msg) >= 3
          /\ SubSeq(hookCalls[i].err.InternalError.msg, 1, 2) = <<"panic", ": ">>

\* C32: within one request, the status code given to the first LogFunc call, the
\* one sendError passes to WriteHeader of the safeResponseWriter, the StatusCode
\* of the WireError (as built and as given to the encoder) and the status code
\* given to the second LogFunc call are one value, the HandlerError's own or 500
\* when it had none; and the two LogFunc calls are given the same InternalError
\* and the same PublicError.
C32_OneStatusEverywhere ==
    logs # <<>> =>
        LET code == logs[1].statusCode
        IN  /\ code = IF returned.StatusCode = 0 THEN StatusInternalServerError
                      ELSE returned.StatusCode
            /\ \A i \in DOMAIN OrchestratorCommits : OrchestratorCommits[i].code = code
            /\ \A i \in DOMAIN underlying :
                  (underlying[i].op = "WriteHeader" /\ underlying[i].by = "orchestrator")
                  => underlying[i].code = code
            /\ Negotiated => wire.StatusCode = code
            /\ \A i \in DOMAIN encoded : encoded[i].wire.StatusCode = code
            /\ \A i \in DOMAIN logs :
                  /\ logs[i].statusCode = code
                  /\ logs[i].internalError = logs[1].internalError
                  /\ logs[i].publicError = logs[1].publicError

\* C32 witness: a HandlerError with status 400 and an internal error; the encoder
\* failed, and both LogFunc calls, the commit and the WireError say 400
C32_Witness ==
    /\ pc = "returned" /\ Len(logs) = 2 /\ returned.StatusCode = 400
    /\ ~returned.InternalError.isNil
    /\ logs[1].statusCode = 400 /\ logs[2].statusCode = 400
    /\ logs[2].internalError = returned.InternalError
    /\ Len(OrchestratorCommits) = 1 /\ OrchestratorCommits[1].code = 400
    /\ wire.StatusCode = 400 /\ Len(encoded) = 1

\* the calls of the function HandleFunc returned that are in progress or ended
Requests == {Locals} \cup {other[i] : i \in DOMAIN other}

\* C33: of two requests one Handler serves at the same time, in every
\* interleaving of their steps, each has its own written flag, request id and
\* HandlerError: Written() is true in a request only if WriteHeader or Write was
\* called on that request's own writer; every LogFunc call and every WireError of
\* a request carries the id RequestUUIDFunc returned to that request, and the
\* status and errors of the HandlerError its own handler returned.
C33_RequestsShareNothing ==
    \A q \in Requests :
        /\ q.written => q.wcalls # <<>>
        /\ q.wcalls = <<>> => q.underlying = <<>> \/ \A i \in DOMAIN q.underlying :
                                                      q.underlying[i].op = "SetHeader"
        /\ \A i \in DOMAIN q.logs :
              /\ q.logs[i].requestUUID = q.requestUUID
              /\ q.logs[i].internalError = q.returned.InternalError
              /\ q.logs[i].statusCode = Normalized(q.returned).StatusCode
              /\ q.logs[i].publicError = Normalized(q.returned).PublicError
        /\ ~q.wire.isNil => q.wire = WireError(Normalized(q.returned), q.requestUUID)
        /\ \A i \in DOMAIN q.encoded :
              /\ q.encoded[i].wire = q.wire
              /\ q.encoded[i].ctxUUID = q.requestUUID
        /\ q.uuidCalls <= 1

\* C33 witness: while one request, whose handler returned a HandlerError, waits
\* with its WireError built and nothing written, the other, to which the
\* caller's RequestUUIDFunc gave another id, has written a body and returned nil
C33_Witness ==
    /\ other # <<>>
    /\ other[1].pc = "header" /\ ~other[1].written /\ other[1].wire.StatusCode = 400
    /\ Len(other[1].logs) = 1 /\ other[1].logs[1].requestUUID = other[1].requestUUID
    /\ pc = "returned" /\ result = "nil" /\ Written /\ logs = <<>>
    /\ requestUUID # other[1].requestUUID
    /\ other[1].wire.RequestUUID = other[1].requestUUID

\* the state of section 4.5 the orchestrator is in
Stage ==
    CASE pc = "config" -> "Start"
      [] pc = "handler" -> "InvokingHandler"
      [] pc = "normalize" -> "Normalizing"
      [] pc \in {"log", "written"} -> "Logging"
      [] pc = "negotiate" -> "Negotiating"
      [] pc \in {"header", "commit", "encode", "encoded"} -> "Encoding"
      [] pc = "returned" -> outcome
      [] OTHER -> "Panicked"

\* the position of a step of HandleFunc and sendError in the code
Rank(p) ==
    CASE p = "config" -> 0
      [] p = "handler" -> 1
      [] p = "normalize" -> 2
      [] p = "log" -> 3
      [] p = "written" -> 4
      [] p = "negotiate" -> 5
      [] p = "header" -> 6
      [] p = "commit" -> 7
      [] p = "encode" -> 8
      [] p = "encoded" -> 9
      [] OTHER -> 10

TerminalStates == {"Success", "AlreadyCommitted", "EncodingOK", "EncodingFailed"}

StageTransitions ==
    {<<"Start", "InvokingHandler">>, <<"InvokingHandler", "Success">>,
     <<"InvokingHandler", "Normalizing">>, <<"Normalizing", "Logging">>,
     <<"Logging", "AlreadyCommitted">>, <<"Logging", "Negotiating">>,
     <<"Negotiating", "Encoding">>, <<"Encoding", "EncodingOK">>,
     <<"Encoding", "EncodingFailed">>}

\* C34: every request ends; it ends in exactly one of Success,
\* AlreadyCommitted, EncodingOK and EncodingFailed unless a function it called
\* panicked instead of returning; and it gets there by the transitions of
\* section 4.5 alone, each step at or after the previous one's place in the code:
\* no loop, no retry, no way out of a terminal state.
C34_RequestTerminates ==
    /\ <>Ended
    /\ [][/\ Rank(pc') >= Rank(pc)
          /\ (Stage' # Stage) =>
                (\/ <<Stage, Stage'>> \in StageTransitions
                 \/ Stage' = "Panicked" /\ crash' # "")
          /\ (Stage \in TerminalStates \cup {"Panicked"}) => (Stage' = Stage)]_vars

C34_Witness ==
    /\ pc = "returned" /\ outcome = "EncodingFailed" /\ crash = ""
    /\ Len(logs) = 2 /\ Len(encoded) = 1

\* Accept values that differ from a registry key in letter case or in
\* parameters only, each with that key
CaseAndParameterVariants ==
    {<<TextHTMLQ, TextHTML>>, <<AppJSONMixedQ, AppJSON>>, <<TextHTML, TextHTML>>}

\* some letter of s is an upper-case letter or a separator of parameters
HasUpperOrParameter(s) ==
    \E i \in DOMAIN s : s[i] \in {";", " ", "="} \/ <<s[i]>> # ToLower(<<s[i]>>)

\* C35: without an override, an Accept value that differs from a registry key
\* only in letter case or in parameters (;q=...) matches that key: when it comes
\* first and the key has an encoder, sendError resolves that encoder and the
\* key itself, and puts the key in the Content-Type header; and whatever content
\* type the Accept header yields is a bare type in lower case.
C35_AcceptReducedToBareType ==
    /\ \A v \in CaseAndParameterVariants :
          (/\ Negotiated /\ Override = Empty /\ accept # <<>> /\ accept[1] = v[1]
           /\ v[2] \in DOMAIN Registry /\ Registry[v[2]] # Nil)
          => /\ chosen = [enc |-> Registry[v[2]], ct |-> v[2], fallback |-> FALSE]
             /\ err.ContentType = v[2]
             /\ \A i \in DOMAIN HeaderSets : HeaderSets[i].value = v[2]
    /\ (Negotiated /\ Override = Empty /\ ~chosen.fallback)
          => chosen.ct \in DOMAIN Registry /\ ~HasUpperOrParameter(chosen.ct)

C35_Witness ==
    /\ pc = "returned" /\ Negotiated /\ Override = Empty
    /\ accept # <<>> /\ accept[1] = AppJSONMixedQ
    /\ chosen.ct = AppJSON /\ ~chosen.fallback
    /\ Len(HeaderSets) = 1 /\ HeaderSets[1].value = AppJSON

\* the pair FallbackEncoderFunc returns, its content type in lower case
FallbackPair ==
    [enc |-> options.FallbackEncoderFunc.enc,
     ct |-> ToLower(options.FallbackEncoderFunc.ct), fallback |-> TRUE]

\* C36: an Accept value that does not parse (the empty value) is skipped and
\* does not end the negotiation.  Without an override and with the empty value
\* first: a second value that matches a key with an encoder is resolved to that
\* key and its encoder; when no value's bare type is a key, the fallback pair is
\* used.  And the request goes on: the status the orchestrator commits, and the
\* only one the underlying writer receives, is the error's.
C36_UnparsableAcceptSkipped ==
    /\ (Negotiated /\ Override = Empty /\ accept # <<>> /\ accept[1] = Empty)
       => /\ \A v \in CaseAndParameterVariants :
                (/\ Len(accept) >= 2 /\ accept[2] = v[1]
                 /\ v[2] \in DOMAIN Registry /\ Registry[v[2]] # Nil)
                => chosen = [enc |-> Registry[v[2]], ct |-> v[2], fallback |-> FALSE]
          /\ (\A i \in DOMAIN accept : BareType(accept[i]) \notin DOMAIN Registry)
                => chosen = FallbackPair
    /\ (/\ pc \in {"encoded", "returned"} /\ Negotiated
        /\ \E i \in DOMAIN accept : accept[i] = Empty)
       => /\ Len(OrchestratorCommits) = 1
          /\ OrchestratorCommits[1].code = returned.StatusCode
          /\ Len(Commits) = 1 /\ Commits[1].code = returned.StatusCode

C36_Witness ==
    /\ pc = "returned" /\ Override = Empty
    /\ Len(accept) = 2 /\ accept[1] = Empty /\ accept[2] = TextHTMLQ
    /\ chosen.ct = TextHTML /\ ~chosen.fallback
    /\ Len(Commits) = 1 /\ Commits[1].code = 400

\* the pair a fallback function returns, as sendError keeps it
PairOf(f) == [enc |-> f.enc, ct |-> ToLower(f.ct), fallback |-> TRUE]

\* C37: a negotiation that falls back, also one that runs while another
\* goroutine replaces the fallback with SetFallbackEncoder, obtains the pair
\* the Handler held before the replacement or the pair it holds after it.
C37_FallbackPairWhole ==
    (Negotiated /\ chosen.fallback)
    => \/ chosen = PairOf(options.FallbackEncoderFunc)
       \/ /\ setup # <<>> /\ LastSetup.res = "nil"
          /\ chosen = PairOf(LastSetup.before.FallbackEncoderFunc)

ErrorMember(body) == SubSeq(body, 12, Len(body) - 10)

\* the members name : value occur in this order, next to each other or
\* separated by one comma, at the start of the token sequence s
RECURSIVE HoldsFields(_, _)
HoldsFields(s, fields) ==
    IF fields = <<>> THEN TRUE
    ELSE LET m == <<"\"", Head(fields).name, "\"", ":">> \o JSONString(Head(fields).value)
         IN  /\ Len(s) >= Len(m) /\ SubSeq(s, 1, Len(m)) = m
             /\ \/ Tail(fields) = <<>>
                \/ /\ Len(s) > Len(m) /\ s[Len(m) + 1] = ","
                   /\ HoldsFields(SubSeq(s, Len(m) + 2, Len(s)), Tail(fields))

=============================================================================
